---- MODULE Spec2Model ----
(***************************************************************************)
(* State-machine model of the Wax test server                              *)
(* (src/googleapis/client/transport/test/wax_server.py): the SessionData   *)
(* item store, the Repository of sessions and the WaxHandler dispatcher.   *)
(*                                                                         *)
(* Every request is handled by a thread that walks through the handler's   *)
(* code one step at a time (lock acquisition, each statement of the locked *)
(* section, lock release, delay, response), so that requests interleave.   *)
(* Spec is the server as main() runs it (one request at a time);           *)
(* CreateRaceSpec runs several handler threads against one Repository.     *)
(***************************************************************************)
EXTENDS Integers, Sequences, FiniteSets, TLC

\* ---------------------------------------------------------------- bounds
\* Number of requests accepted in one behaviour.
MaxRequests == 4

\* ----------------------------------------------------------- dictionaries
\* A Python dict is a function from its keys to its values; {} is <<>>.
EmptyDict == <<>>

\* Python truthiness of a dict (or of None, modelled as the empty dict).
Truthy(d) == DOMAIN d # {}

\* dict.get(key, None): the empty dict stands for None where a dict is expected.
HasKey(d, k) == k \in DOMAIN d

\* d.items(): the (key, value) pairs of d as a list, in some order.
RECURSIVE PairsOf(_, _)
PairsOf(d, keys) ==
  IF keys = {} THEN <<>>
  ELSE LET k == CHOOSE x \in keys : TRUE
       IN  <<<<k, d[k]>>>> \o PairsOf(d, keys \ {k})

items(d) == PairsOf(d, DOMAIN d)

\* dict(pairs): a later pair replaces an earlier pair of the same key.
dict(pairs) ==
  LET keys == {pairs[i][1] : i \in DOMAIN pairs}
      last(k) == CHOOSE i \in DOMAIN pairs :
                   /\ pairs[i][1] = k
                   /\ \A j \in DOMAIN pairs : pairs[j][1] = k => j <= i
  IN  [k \in keys |-> pairs[last(k)][2]]

\* d with d[k] = v (assignment d[k] = v).
SetKey(d, k, v) == [f \in DOMAIN d \cup {k} |-> IF f = k THEN v ELSE d[f]]

\* ------------------------------------------------------------ SessionData
WaxKind == "wax#waxDataItem"

\* AddWaxKind that leaves the item as it came.
AddWaxKind_noop(item) == item

\* SessionData.AddWaxKind: item['kind'] = 'wax#waxDataItem'.
AddWaxKind(item) == SetKey(item, "kind", WaxKind)

\* NewSessionData with the seed items appended in the wrong order.
NewSessionData_swapped ==
  [_items |-> << AddWaxKind([id |-> "B", name |-> "Item B"]),
                 AddWaxKind([id |-> "A", name |-> "Item A"]) >>,
   _mutex |-> "free"]

\* SessionData.__init__: the two seed items, A then B.
NewSessionData ==
  [_items |-> << AddWaxKind([id |-> "A", name |-> "Item A"]),
                 AddWaxKind([id |-> "B", name |-> "Item B"]) >>,
   _mutex |-> "free"]

\* SessionData._FindItem: the first item whose id is key, or None (EmptyDict).
_FindItem(list, key) ==
  IF \E i \in DOMAIN list : list[i]["id"] = key
  THEN list[CHOOSE i \in DOMAIN list :
              /\ list[i]["id"] = key
              /\ \A j \in DOMAIN list : list[j]["id"] = key => i <= j]
  ELSE EmptyDict

\* list.remove(x): the list without its first element equal to x.
Contains(list, x) == \E i \in DOMAIN list : list[i] = x

Remove(list, x) ==
  LET at == CHOOSE i \in DOMAIN list :
              /\ list[i] = x
              /\ \A j \in DOMAIN list : list[j] = x => i <= j
  IN  [i \in 1..(Len(list) - 1) |-> IF i < at THEN list[i] ELSE list[i + 1]]

\* The list without its element at position i.
DropAt(list, i) ==
  [j \in 1..(Len(list) - 1) |-> IF j < i THEN list[j] ELSE list[j + 1]]

\* PatchMerge with the operands swapped: the stored fields win.
PatchMerge_oldwins(session_item, item) ==
  dict(items(item) \o items(session_item))

\* The merge of PatchItem: dict(session_item.items() + item.items()).
PatchMerge(session_item, item) == dict(items(session_item) \o items(item))

\* ------------------------------------------------- Python object graphs
\* An object memory is a list of objects, an object's identity its position.
\* A dict object holds its fields in f; the value of a field named in
\* RefFields is the identity of another object, any other value is a scalar.
\* A list object holds the identities of its elements in elems.
RefFields == {"extra"}

DictObject(f) == [t |-> "dict", elems |-> <<>>, f |-> f]

ListObject(elems) == [t |-> "list", elems |-> elems, f |-> EmptyDict]

\* The objects an object refers to directly.
Children(o) ==
  {o.elems[i] : i \in DOMAIN o.elems}
    \cup {o.f[k] : k \in DOMAIN o.f \cap RefFields}

\* The objects reachable from object id, itself included.
RECURSIVE Reach(_, _)
Reach(objs, id) ==
  {id} \cup UNION {Reach(objs, c) : c \in Children(objs[id])}

\* The value a reader sees at object id (what json.dumps would write).
RECURSIVE Value(_, _)
Value(objs, id) ==
  LET o == objs[id]
  IN  IF o.t = "list"
      THEN [i \in DOMAIN o.elems |-> Value(objs, o.elems[i])]
      ELSE [k \in DOMAIN o.f |->
              IF k \in RefFields THEN Value(objs, o.f[k]) ELSE o.f[k]]

RECURSIVE deepcopy(_, _)
RECURSIVE CopyElems(_, _)
RECURSIVE CopyFields(_, _, _)

\* deepcopy of each element of a list, in order.
CopyElems(objs, elems) ==
  IF elems = <<>> THEN [objs |-> objs, ids |-> <<>>]
  ELSE LET head == deepcopy(objs, Head(elems))
           rest == CopyElems(head.objs, Tail(elems))
       IN  [objs |-> rest.objs, ids |-> <<head.id>> \o rest.ids]

\* deepcopy of each object-valued field of a dict.
CopyFields(objs, f, keys) ==
  IF keys = {} THEN [objs |-> objs, f |-> f]
  ELSE LET k == CHOOSE x \in keys : TRUE
           c == deepcopy(objs, f[k])
       IN  CopyFields(c.objs, [f EXCEPT ![k] = c.id], keys \ {k})

\* copy.copy: a new object that refers to the same children.
deepcopy_shallow(objs, id) ==
  [objs |-> Append(objs, objs[id]), id |-> Len(objs) + 1]

\* copy.deepcopy: a new object whose children are deep copies; the result
\* is the extended memory and the identity of the copy.
deepcopy(objs, id) ==
  LET o == objs[id]
  IN  IF o.t = "list"
      THEN LET c == CopyElems(objs, o.elems)
           IN  [objs |-> Append(c.objs, ListObject(c.ids)),
                id |-> Len(c.objs) + 1]
      ELSE LET c == CopyFields(objs, o.f, DOMAIN o.f \cap RefFields)
           IN  [objs |-> Append(c.objs, DictObject(c.f)),
                id |-> Len(c.objs) + 1]

\* SessionData.__init__ as objects: the list _items and the two seed dicts.
NewSessionObjects ==
  [objs |-> << ListObject(<<2, 3>>),
               DictObject(AddWaxKind([id |-> "A", name |-> "Item A"])),
               DictObject(AddWaxKind([id |-> "B", name |-> "Item B"])) >>,
   _items |-> 1, caller |-> {}, calls |-> 0, op |-> "__init__"]

\* ------------------------------------------------------------- Repository
\* FormatKey without the sequence number.
FormatKey_noseq(basename, node, seq) == basename \o "-" \o node

\* Repository.NewIdentifier: '%s-%s-%s' % (basename, nodeid, sequence_num).
FormatKey(basename, node, seq) ==
  basename \o "-" \o node \o "-" \o ToString(seq)

\* ----------------------------------------------- chunked transfer encoding
\* Bytes are one-character strings, a byte stream is a sequence of bytes.
CR == "\r"
LF == "\n"

\* What a client sends: each chunk is its size in hexadecimal (digits in
\* either case, leading zeros allowed), \r\n, the data, \r\n; the body ends
\* with the zero-size chunk 0\r\n\r\n.
RECURSIVE ToHex(_, _)
ToHex(n, upper) ==
  LET HexLower == << "0", "1", "2", "3", "4", "5", "6", "7", "8", "9",
                     "a", "b", "c", "d", "e", "f" >>
      HexUpper == << "0", "1", "2", "3", "4", "5", "6", "7", "8", "9",
                     "A", "B", "C", "D", "E", "F" >>
      digit(k) == IF upper THEN HexUpper[k + 1] ELSE HexLower[k + 1]
  IN  IF n < 16 THEN << digit(n) >>
      ELSE ToHex(n \div 16, upper) \o << digit(n % 16) >>

SizeLine(n, upper, pad) ==
  (IF pad THEN << "0" >> ELSE << >>) \o ToHex(n, upper)

\* A body whose size lines are all terminated by \r\n.
NoDamage == [line |-> 0, kind |-> "none"]

\* The bytes that terminate size line i: \r\n, or under damage a byte that is
\* not \r ("not_cr"), or \r followed by a byte that is not \n ("not_lf").
Terminator(i, damage) ==
  IF damage.line # i THEN << CR, LF >>
  ELSE IF damage.kind = "not_cr" THEN << ";", LF >>
  ELSE << CR, "x" >>

\* The chunks from the i-th on, then the zero-size chunk, whose size line is
\* line Len(chunks) + 1.
RECURSIVE Frame(_, _, _, _, _)
Frame(chunks, i, upper, pad, damage) ==
  IF i > Len(chunks)
  THEN << "0" >> \o Terminator(i, damage) \o << CR, LF >>
  ELSE SizeLine(Len(chunks[i]), upper, pad) \o Terminator(i, damage)
         \o chunks[i] \o << CR, LF >>
         \o Frame(chunks, i + 1, upper, pad, damage)

ChunkedBody(chunks, upper, pad, damage) == Frame(chunks, 1, upper, pad, damage)

\* string.hexdigits
hexdigits == << "0", "1", "2", "3", "4", "5", "6", "7", "8", "9",
                "a", "b", "c", "d", "e", "f", "A", "B", "C", "D", "E", "F" >>

\* int(hex_digit, 16)
int16(hex_digit) ==
  LET i == CHOOSE k \in DOMAIN hexdigits : hexdigits[k] = hex_digit
  IN  IF i <= 16 THEN i - 1 ELSE i - 7

\* The size accumulated in base ten.
Accumulate_base10(chunk_len, hex_digit) == 10 * chunk_len + int16(hex_digit)

\* chunk_len = 16 * chunk_len + int(hex_digit, 16)
Accumulate(chunk_len, hex_digit) == 16 * chunk_len + int16(hex_digit)

\* _ReadChunkedPayload about to read the first size line of rfile.
Decoding(rfile) ==
  [rfile |-> rfile, pos |-> 1, chunk_len |-> 0, payload |-> << >>,
   at |-> "read_size"]

\* self.rfile.read(n): the next n bytes, fewer at the end of the stream.
read(d, n) ==
  LET last == IF d.pos + n - 1 > Len(d.rfile) THEN Len(d.rfile)
              ELSE d.pos + n - 1
  IN  SubSeq(d.rfile, d.pos, last)

\* _ReadChunkedPayload has returned ''.join(payload) or raised ValueError.
Decoded(d) == d.at \in {"return", "ValueError"}

\* A decoder for which '' at the end of the stream is one more digit that
\* leaves the size as it is.
ReadStep_eofdigit(d) ==
  IF d.at = "read_chunk"
  THEN LET chunk == read(d, d.chunk_len)
       IN  [d EXCEPT !.payload = @ \o chunk, !.pos = @ + Len(chunk),
                     !.chunk_len = 0, !.at = "read_size"]
  ELSE LET hex_digit == read(d, 1)
           after == [d EXCEPT !.pos = @ + Len(hex_digit)]
           follows == read(after, 1)
       IN  IF hex_digit = << >>
           THEN d
           ELSE IF \E k \in DOMAIN hexdigits : hexdigits[k] = hex_digit[1]
           THEN [after EXCEPT
                   !.chunk_len = Accumulate(d.chunk_len, hex_digit[1])]
           ELSE IF hex_digit[1] # CR
           THEN [after EXCEPT !.at = "ValueError"]
           ELSE IF follows # << LF >>
           THEN [after EXCEPT !.pos = @ + Len(follows), !.at = "ValueError"]
           ELSE [after EXCEPT
                   !.pos = @ + 1,
                   !.at = IF d.chunk_len = 0 THEN "return" ELSE "read_chunk"]

\* One iteration of the inner loop (a byte of a size line, with the byte
\* after \r), or payload.append(self.rfile.read(chunk_len)) followed by
\* chunk_len = 0. At the end of the stream read(1) returns '', which is `in
\* string.hexdigits`, and int('', 16) raises ValueError.
ReadStep(d) ==
  IF d.at = "read_chunk"
  THEN LET chunk == read(d, d.chunk_len)
       IN  [d EXCEPT !.payload = @ \o chunk, !.pos = @ + Len(chunk),
                     !.chunk_len = 0, !.at = "read_size"]
  ELSE LET hex_digit == read(d, 1)
           after == [d EXCEPT !.pos = @ + Len(hex_digit)]
           follows == read(after, 1)
       IN  IF hex_digit = << >>
           THEN [d EXCEPT !.at = "ValueError"]
           ELSE IF \E k \in DOMAIN hexdigits : hexdigits[k] = hex_digit[1]
           THEN [after EXCEPT
                   !.chunk_len = Accumulate(d.chunk_len, hex_digit[1])]
           ELSE IF hex_digit[1] # CR
           THEN [after EXCEPT !.at = "ValueError"]
           ELSE IF follows # << LF >>
           THEN [after EXCEPT !.pos = @ + Len(follows), !.at = "ValueError"]
           ELSE [after EXCEPT
                   !.pos = @ + 1,
                   !.at = IF d.chunk_len = 0 THEN "return" ELSE "read_chunk"]

\* _ReadChunkedPayload run to its end on the stream rfile.
RECURSIVE RunDecoder(_)
RunDecoder(d) == IF Decoded(d) THEN d ELSE RunDecoder(ReadStep(d))

_ReadChunkedPayload(rfile) == RunDecoder(Decoding(rfile))

\* ------------------------------------------------------------------ state
VARIABLES
  _sessions,      \* Repository._sessions: identifier -> address of its SessionData
  _nodeid,        \* Repository._nodeid, fixed at construction
  _sequence_num,  \* Repository._sequence_num
  repo_mutex,     \* Repository._mutex: "free" or the thread holding it
  heap,           \* every SessionData constructed so far: [_items, _mutex]
  run,            \* _SERVER_SETTINGS['run']
  pc,             \* per handler thread: the statement it is about to execute
  frame,          \* per handler thread: the request and the handler's locals
  resp,           \* per handler thread: the response written for its last request
  issued,         \* the identifiers NewIdentifier has returned, in order
  accepted,       \* number of requests accepted so far
  mem,            \* one SessionData and its caller as a graph of objects:
                  \* objs, the list _items, the objects the caller holds,
                  \* the number of calls made and the last call
  dec,            \* one run of _ReadChunkedPayload: the chunks a client
                  \* framed, the stream rfile and the decoder's locals
  probe           \* the request a client repeats, fixed from the start

vars == << _sessions, _nodeid, _sequence_num, repo_mutex, heap, run,
           pc, frame, resp, issued, accepted, mem, dec, probe >>

\* ----------------------------------------------------------------- inputs
Methods == {"GET", "POST", "PUT", "PATCH", "DELETE"}

_JSON_CONTENT_TYPE == "application/json"

\* Request bodies as _GetJson sees them. The payload (t, v) is empty
\* ("absent"), bytes that are not JSON, a JSON object, or a JSON value that
\* is not an object. It arrives with a Content-Length header ("length"),
\* with Transfer-Encoding: chunked, or with neither header ("none"), and
\* with a Content-Type. A chunked body also has its bytes on the wire, framed
\* by the client, and the damage done to one of its size lines.
Body(t, v) ==
  [t |-> t, v |-> v, encoding |-> "length",
   content_type |-> _JSON_CONTENT_TYPE, wire |-> << >>, damage |-> NoDamage]

Absent  == Body("absent", EmptyDict)
Invalid == Body("invalid", EmptyDict)
Array   == Body("array", EmptyDict)
Obj(d)  == Body("object", d)

\* The text of the payload: its JSON value is kept as (t, v), its bytes
\* stand for the text that json.loads is given.
PayloadBytes(b) ==
  CASE b.t = "absent"  -> << >>
    [] b.t = "invalid" -> << "x" >>
    [] b.t = "array"   -> << "[", "1", "]" >>
    [] b.t = "object"  ->
         << "{" >> \o [i \in 1..Cardinality(DOMAIN b.v) |-> "k"] \o << "}" >>

\* The payload sent as one chunk (none when it is empty) and the zero-size
\* chunk, with the given damage to a size line.
ChunkedDamaged(b, damage) ==
  LET chunks == IF PayloadBytes(b) = << >> THEN << >>
                ELSE << PayloadBytes(b) >>
  IN  [b EXCEPT !.encoding = "chunked",
                !.wire = ChunkedBody(chunks, FALSE, FALSE, damage),
                !.damage = damage]

Chunked(b)  == ChunkedDamaged(b, NoDamage)
NoLength(b) == [b EXCEPT !.encoding = "none"]
Typed(b, c) == [b EXCEPT !.content_type = c]

\* The same payloads sent in the other ways.
OtherTransports(b) == {Chunked(b), NoLength(b), Typed(b, "text/plain")}

ItemBodies ==
  { Obj([id |-> "C", name |-> "old", extra |-> [x |-> 1]]),
    Obj([name |-> "X", extra |-> [y |-> 2]]),
    Obj([id |-> "B", kind |-> "other"]),
    Obj(EmptyDict), Array, Absent, Invalid }

Basenames == {"s", "t"}
NodeIds   == {"0.01"}
ItemIds   == {"A", "B", "C"}

\* Chunked bodies in which the terminator of the size line of the chunk, or
\* of the zero-size chunk after it, is not \r\n.
DamagedBodies ==
  {ChunkedDamaged(Obj([name |-> "X", extra |-> [y |-> 2]]),
                  [line |-> i, kind |-> k]) :
     i \in 1..2, k \in {"not_cr", "not_lf"}}

\* Session identifiers a client may name: those issued so far and one that
\* was never issued.
SessionIds == {issued[i] : i \in DOMAIN issued} \cup {"nosuch"}

NewSessionBodies ==
  {Obj([sessionName |-> b]) : b \in Basenames}
    \cup {Obj([other |-> "x"]), Obj(EmptyDict), Array, Absent, Invalid}

RemoveSessionBodies ==
  {Obj([sessionId |-> s]) : s \in SessionIds}
    \cup {Obj([other |-> "x"]), Obj(EmptyDict), Array, Absent, Invalid}

\* A path is the list of its tokens: "/" or a run of non-slash characters.
QuitPath          == <<"/", "quit">>
NewSessionPath    == <<"/", "newsession">>
RemoveSessionPath == <<"/", "removesession">>
SessionPath(s)    == <<"/", "sessions", "/", s, "/", "items">>
ItemPath(s, i)    == <<"/", "sessions", "/", s, "/", "items", "/", i>>

Req(m, p, b) == [method |-> m, path |-> p, body |-> b]

\* Paths that only begin like a route.
PrefixPaths(s) ==
  { SessionPath(s) \o <<"X">>,
    SessionPath(s) \o <<"/">>,
    ItemPath(s, "A") \o <<"/", "x">> }

\* The requests the sequential server is driven with.
Requests ==
  {Req(m, QuitPath, Absent) : m \in Methods}
    \cup {Req(m, <<"/", "bogus">>, Absent) : m \in {"GET", "POST"}}
    \cup {Req("GET", QuitPath \o <<"x">>, Absent)}
    \cup {Req(m, p, Absent) :
            m \in {"GET", "DELETE"},
            p \in UNION {PrefixPaths(s) : s \in SessionIds \ {"nosuch"}}}
    \cup {Req("POST", NewSessionPath, b) :
            b \in OtherTransports(Absent) \cup OtherTransports(Invalid)
                    \cup OtherTransports(Obj([sessionName |-> "s"]))}
    \cup {Req("POST", RemoveSessionPath, b) :
            b \in {Chunked(Absent), Chunked(Invalid)}}
    \cup {Req(m, p, b) :
            m \in {"POST", "PUT", "PATCH"},
            p \in UNION {{SessionPath(s), ItemPath(s, "A")} :
                           s \in SessionIds \ {"nosuch"}},
            b \in {Chunked(Absent), Chunked(Invalid)}}
    \cup {Req("POST", NewSessionPath, b) : b \in NewSessionBodies}
    \cup {Req("POST", NewSessionPath,
               Typed(Chunked(Obj([sessionName |-> "s"])), "text/plain"))}
    \cup {Req("GET", NewSessionPath, Absent)}
    \cup {Req("POST", RemoveSessionPath, b) : b \in RemoveSessionBodies}
    \cup {Req("PUT", RemoveSessionPath, Absent)}
    \cup {Req(m, SessionPath(s), Absent) :
            m \in {"GET", "DELETE"}, s \in SessionIds}
    \cup {Req("POST", SessionPath(s), b) : s \in SessionIds, b \in ItemBodies}
    \cup {Req(m, SessionPath(s), Obj([id |-> "C", name |-> "old", extra |-> [x |-> 1]])) :
            m \in {"PUT", "PATCH"}, s \in SessionIds}
    \cup {Req(m, ItemPath(s, i), Absent) :
            m \in {"GET", "DELETE"}, s \in SessionIds, i \in ItemIds}
    \cup {Req(m, ItemPath(s, i), b) :
            m \in {"PUT", "PATCH"}, s \in SessionIds \ {"nosuch"},
            i \in ItemIds, b \in ItemBodies}
    \cup {Req(m, ItemPath("nosuch", "A"), b) :
            m \in {"PUT", "PATCH"}, b \in {Absent, Obj([name |-> "X", extra |-> [y |-> 2]])}}
    \cup {Req("POST", ItemPath(s, "A"), b) :
            s \in SessionIds, b \in {Absent, Obj([name |-> "X", extra |-> [y |-> 2]])}}
    \cup {Req("PUT", ItemPath(s, "A"), b) :
            s \in SessionIds \ {"nosuch"}, b \in DamagedBodies}

\* --------------------------------------------------------------- routing
\* ([^/]+) starting at token i: the run of non-slash tokens from i on.
RECURSIVE Run(_, _)
Run(path, i) ==
  IF i > Len(path) \/ path[i] = "/" THEN ""
  ELSE path[i] \o Run(path, i + 1)

\* _RE_SESSION_COMMAND = '^/sessions/([^/]+)/items' (re.match: a prefix match).
MatchSessionCommand(path) ==
  /\ Len(path) >= 6
  /\ <<path[1], path[2], path[3]>> = <<"/", "sessions", "/">>
  /\ path[4] # "/"
  /\ <<path[5], path[6]>> = <<"/", "items">>

\* _RE_ITEM_COMMAND = '^/sessions/([^/]+)/items/([^/]+)' (a prefix match).
MatchItemCommand(path) ==
  /\ MatchSessionCommand(path)
  /\ Len(path) >= 8
  /\ path[7] = "/"
  /\ path[8] # "/"

\* -------------------------------------------------------------- responses
NoResponse == [code |-> 0, content_type |-> "", json |-> EmptyDict, text |-> ""]

\* _SendResponse(payload, http_code): a plain-text response.
TextResponse(payload, http_code) ==
  [code |-> http_code, content_type |-> "text/plain",
   json |-> EmptyDict, text |-> payload]

\* _SendJsonObjectResponse(obj, http_code).
JsonObjectResponse(obj, http_code) ==
  [code |-> http_code, content_type |-> "application/json",
   json |-> obj, text |-> ""]

\* An error body that carries the message only.
JsonErrorResponse_nocode(msg, http_code) ==
  JsonObjectResponse([message |-> msg], http_code)

\* _SendJsonErrorResponse(msg, http_code).
JsonErrorResponse(msg, http_code) ==
  JsonObjectResponse([message |-> msg, code |-> http_code], http_code)

\* A request that ended in an uncaught exception: no response is written.
Failure(exc) ==
  [code |-> -1, content_type |-> "", json |-> EmptyDict, text |-> exc]

\* ----------------------------------------------------------- thread state
\* The request, the locals of the handler and of the store method it calls,
\* and (before) the item list as the method's _FindItem saw it.  (entry) is
\* the contents of the store when main()'s loop accepted the request; it is
\* recorded for the one serving thread of main(), for which "what the request
\* found" is one state of the store.
IdleFrame ==
  [method |-> "", path |-> <<>>, body |-> Absent,
   handler |-> "", session_id |-> "", key |-> "",
   session_data |-> 0, item |-> EmptyDict, session_item |-> EmptyDict,
   wax |-> EmptyDict, response |-> NoResponse,
   before |-> <<>>, entry |-> <<>>]

Threads == DOMAIN pc

\* The thread moves to statement `label` with its locals changed to `f`.
Goto(t, label, f) ==
  /\ pc' = [pc EXCEPT ![t] = label]
  /\ frame' = [frame EXCEPT ![t] = f]
  /\ resp' = resp

\* The handler has built its response and will write it next.
Respond(t, r) ==
  Goto(t, "_SendResponse", [frame[t] EXCEPT !.response = r])

\* An exception leaves the handler: BaseHTTPServer drops the connection.
Raise(t, exc) ==
  /\ pc' = [pc EXCEPT ![t] = "idle"]
  /\ frame' = [frame EXCEPT ![t] = IdleFrame]
  /\ resp' = [resp EXCEPT ![t] = Failure(exc)]

ServerInit(threads) ==
  /\ _sessions = <<>>
  /\ _nodeid \in NodeIds
  /\ _sequence_num = 0
  /\ repo_mutex = "free"
  /\ heap = <<>>
  /\ run = TRUE
  /\ pc = [t \in threads |-> "idle"]
  /\ frame = [t \in threads |-> IdleFrame]
  /\ resp = [t \in threads |-> NoResponse]
  /\ issued = <<>>
  /\ accepted = 0
  /\ mem = NewSessionObjects

\* No chunked body is being decoded apart from the requests, and no client
\* repeats a request.
NoDecoding == [chunks |-> << >>, damage |-> NoDamage, rfile |-> << >>, pos |-> 1,
               chunk_len |-> 0, payload |-> << >>, at |-> "none"]
NoProbe == [method |-> "", key |-> "", body |-> << >>, seen |-> FALSE,
            once |-> << >>, answer |-> 0]

InitWith(threads) ==
  /\ ServerInit(threads)
  /\ dec = NoDecoding
  /\ probe = NoProbe

\* main(): one request is handled at a time.
Init == InitWith({"main"})

\* ------------------------------------------------------------- _GetJson
\* _GetJson that does not look at the Content-Type.
NoPayload_anytype(body) ==
  /\ body.encoding = "length"
  /\ body.t = "absent"

\* Not chunked, and the payload read is empty or the Content-Type is not
\* application/json: _GetJson returns None without parsing.
NoPayload(body) ==
  /\ body.encoding = "length"
  /\ body.t = "absent" \/ body.content_type # _JSON_CONTENT_TYPE

\* _GetJson raises: int(None) when there is no Content-Length header
\* (TypeError), _ReadChunkedPayload on a body it finds malformed (ValueError),
\* json.loads on an empty payload or on bytes that are not JSON (ValueError).
JsonRaises(body) ==
  \/ body.encoding = "none"
  \/ /\ body.encoding = "chunked"
     /\ _ReadChunkedPayload(body.wire).at = "ValueError"
  \/ ~NoPayload(body) /\ body.t \in {"absent", "invalid"}

JsonError(body) == IF body.encoding = "none" THEN "TypeError" ELSE "ValueError"

\* The value _GetJson returns is truthy: a non-empty object or array.
JsonTruthy(body) ==
  /\ ~NoPayload(body)
  /\ \/ body.t = "array"
     \/ body.t = "object" /\ Truthy(body.v)

IsObject(body) == body.t = "object"

\* ------------------------------------------------------ WaxHandler: entry
UnchangedStore == UNCHANGED << _sessions, _nodeid, _sequence_num, repo_mutex,
                               heap, issued, mem, dec, probe >>

\* What the Repository holds: the registered sessions, the sequence counter
\* and the item list of every SessionData.
StoreContents ==
  [_sessions |-> _sessions, _sequence_num |-> _sequence_num,
   _items |-> [o \in DOMAIN heap |-> heap[o]._items]]

\* One iteration of main()'s loop accepts a request and _DispatchMethod
\* routes it by path and method.
\* A path that merely starts with /quit stops the server as well.
IsQuit_prefix(path) ==
  /\ Len(path) >= Len(QuitPath)
  /\ SubSeq(path, 1, Len(QuitPath)) = QuitPath

\* if self.path == '/quit'
IsQuit(path) == path = QuitPath

_DispatchMethod(t, requests) ==
  /\ pc[t] = "idle"
  /\ run
  /\ accepted < MaxRequests
  /\ accepted' = accepted + 1
  /\ UnchangedStore
  /\ resp' = [resp EXCEPT ![t] = NoResponse]
  /\ \E r \in requests :
       LET f == [IdleFrame EXCEPT !.method = r.method, !.path = r.path,
                                  !.body = r.body,
                                  !.entry = IF Cardinality(Threads) = 1
                                            THEN StoreContents ELSE << >>]
           to(label, g) == /\ pc' = [pc EXCEPT ![t] = label]
                           /\ frame' = [frame EXCEPT ![t] = g]
       IN  IF IsQuit(r.path)
           THEN /\ run' = FALSE
                /\ to("_SendResponse",
                      [f EXCEPT !.response = TextResponse("BYE", 200)])
           ELSE /\ run' = run
                /\ IF r.path = NewSessionPath /\ r.method = "POST"
                   THEN to("_ProcessNewSessionCommand", f)
                   ELSE IF r.path = RemoveSessionPath /\ r.method = "POST"
                   THEN to("_ProcessRemoveSessionCommand", f)
                   ELSE IF MatchItemCommand(r.path)
                   THEN to("GetSessionData",
                           [f EXCEPT !.handler = "_HandleItemMethod",
                                     !.session_id = Run(r.path, 4),
                                     !.key = Run(r.path, 8)])
                   ELSE IF MatchSessionCommand(r.path)
                   THEN to("GetSessionData",
                           [f EXCEPT !.handler = "_HandleSessionMethod",
                                     !.session_id = Run(r.path, 4)])
                   ELSE to("_SendResponse",
                           [f EXCEPT !.response =
                              JsonErrorResponse("URL Not Available", 404)])

\* The response is written only while the server is still running.
_SendResponse_running(t) ==
  /\ pc[t] = "_SendResponse"
  /\ run
  /\ resp' = [resp EXCEPT ![t] = frame[t].response]
  /\ pc' = [pc EXCEPT ![t] = "idle"]
  /\ frame' = [frame EXCEPT ![t] = IdleFrame]
  /\ UNCHANGED << run, accepted >>
  /\ UnchangedStore

\* _SendResponse: the response is written and the handler returns.
_SendResponse(t) ==
  /\ pc[t] = "_SendResponse"
  /\ resp' = [resp EXCEPT ![t] = frame[t].response]
  /\ pc' = [pc EXCEPT ![t] = "idle"]
  /\ frame' = [frame EXCEPT ![t] = IdleFrame]
  /\ UNCHANGED << run, accepted >>
  /\ UnchangedStore

\* ------------------------------------------------- Repository operations
\* self._mutex.acquire() of a Repository method entered at `label`.
RepoAcquire(t, label, next) ==
  /\ pc[t] = label
  /\ repo_mutex = "free"
  /\ repo_mutex' = t
  /\ Goto(t, next, frame[t])
  /\ UNCHANGED << _sessions, _nodeid, _sequence_num, heap, issued,
                  run, accepted, mem, dec, probe >>

\* _ProcessNewSessionCommand up to the call of NewIdentifier.
_ProcessNewSessionCommand(t) ==
  /\ pc[t] = "_ProcessNewSessionCommand"
  /\ UNCHANGED << run, accepted >>
  /\ UnchangedStore
  /\ LET body == frame[t].body
     IN  IF JsonRaises(body) THEN Raise(t, JsonError(body))
         ELSE IF ~JsonTruthy(body)
         THEN Respond(t, JsonErrorResponse("Invalid JSON", 400))
         ELSE IF ~IsObject(body) THEN Raise(t, "TypeError")
         ELSE IF ~HasKey(body.v, "sessionName") THEN Raise(t, "KeyError")
         ELSE Goto(t, "NewIdentifier", [frame[t] EXCEPT !.item = body.v])

\* NewIdentifier entering its section without taking the Repository lock.
NewIdentifier_acquire_nolock(t) ==
  /\ pc[t] = "NewIdentifier"
  /\ repo_mutex' = t
  /\ Goto(t, "NewIdentifier_increment", frame[t])
  /\ UNCHANGED << _sessions, _nodeid, _sequence_num, heap, issued,
                  run, accepted, mem, dec, probe >>

NewIdentifier_acquire(t) ==
  RepoAcquire(t, "NewIdentifier", "NewIdentifier_increment")

\* self._sequence_num += 1
NewIdentifier_increment(t) ==
  /\ pc[t] = "NewIdentifier_increment"
  /\ _sequence_num' = _sequence_num + 1
  /\ Goto(t, "NewIdentifier_register", frame[t])
  /\ UNCHANGED << _sessions, _nodeid, repo_mutex, heap, issued,
                  run, accepted, mem, dec, probe >>

\* key = '%s-%s-%s' % (...); self._sessions[key] = SessionData()
NewIdentifier_register(t) ==
  /\ pc[t] = "NewIdentifier_register"
  /\ LET key == FormatKey(frame[t].item["sessionName"], _nodeid, _sequence_num)
     IN  /\ heap' = Append(heap, NewSessionData)
         /\ _sessions' = SetKey(_sessions, key, Len(heap) + 1)
         /\ Goto(t, "NewIdentifier_release", [frame[t] EXCEPT !.key = key])
  /\ UNCHANGED << _nodeid, _sequence_num, repo_mutex, issued,
                  run, accepted, mem, dec, probe >>

\* NewIdentifier that builds the response before it releases the lock.
NewIdentifier_release_late(t) ==
  /\ pc[t] = "NewIdentifier_release"
  /\ repo_mutex' = repo_mutex
  /\ issued' = Append(issued, frame[t].key)
  /\ Respond(t, JsonObjectResponse(
                  [kind |-> "wax#waxNewSession", newSessionId |-> frame[t].key],
                  200))
  /\ UNCHANGED << _sessions, _nodeid, _sequence_num, heap, run, accepted,
                  mem, dec, probe >>

\* self._mutex.release(); return key; then the 200 response is built.
NewIdentifier_release(t) ==
  /\ pc[t] = "NewIdentifier_release"
  /\ repo_mutex' = "free"
  /\ issued' = Append(issued, frame[t].key)
  /\ Respond(t, JsonObjectResponse(
                  [kind |-> "wax#waxNewSession", newSessionId |-> frame[t].key],
                  200))
  /\ UNCHANGED << _sessions, _nodeid, _sequence_num, heap, run, accepted, mem, dec, probe >>

\* _ProcessRemoveSessionCommand up to the call of RemoveIdentifier.
_ProcessRemoveSessionCommand(t) ==
  /\ pc[t] = "_ProcessRemoveSessionCommand"
  /\ UNCHANGED << run, accepted >>
  /\ UnchangedStore
  /\ LET body == frame[t].body
     IN  IF JsonRaises(body) THEN Raise(t, JsonError(body))
         ELSE IF ~JsonTruthy(body)
         THEN Respond(t, JsonErrorResponse("Invalid JSON", 400))
         ELSE IF ~IsObject(body) THEN Raise(t, "TypeError")
         ELSE IF ~HasKey(body.v, "sessionId") THEN Raise(t, "KeyError")
         ELSE Goto(t, "RemoveIdentifier",
                   [frame[t] EXCEPT !.key = body.v["sessionId"]])

RemoveIdentifier_acquire(t) ==
  RepoAcquire(t, "RemoveIdentifier", "RemoveIdentifier_pop")

\* The dict d without key k.
WithoutKey(d, k) == [f \in DOMAIN d \ {k} |-> d[f]]

\* RemoveIdentifier looking the key up without popping it.
RemoveIdentifier_pop_keep(t) ==
  /\ pc[t] = "RemoveIdentifier_pop"
  /\ repo_mutex' = "free"
  /\ _sessions' = _sessions
  /\ LET key == frame[t].key
     IN  IF HasKey(_sessions, key)
         THEN Respond(t, JsonObjectResponse(
                           [kind |-> "wax#waxRemoveSession",
                            removeSessionId |-> key], 200))
         ELSE Respond(t, JsonErrorResponse("Unknown sessionId", 404))
  /\ UNCHANGED << _nodeid, _sequence_num, heap, issued, run, accepted, mem, dec, probe >>

\* session_data = self._sessions.pop(key, None); release; then the response.
RemoveIdentifier_pop(t) ==
  /\ pc[t] = "RemoveIdentifier_pop"
  /\ repo_mutex' = "free"
  /\ LET key == frame[t].key
     IN  IF HasKey(_sessions, key)
         THEN /\ _sessions' = WithoutKey(_sessions, key)
              /\ Respond(t, JsonObjectResponse(
                              [kind |-> "wax#waxRemoveSession",
                               removeSessionId |-> key], 200))
         ELSE /\ _sessions' = _sessions
              /\ Respond(t, JsonErrorResponse("Unknown sessionId", 404))
  /\ UNCHANGED << _nodeid, _sequence_num, heap, issued, run, accepted, mem, dec, probe >>

GetSessionData_acquire(t) ==
  RepoAcquire(t, "GetSessionData", "GetSessionData_get")

\* GetSessionData returning with the Repository lock still held.
GetSessionData_get_hold(t) ==
  /\ pc[t] = "GetSessionData_get"
  /\ repo_mutex' = repo_mutex
  /\ LET key == frame[t].session_id
         session_data == IF HasKey(_sessions, key) THEN _sessions[key] ELSE 0
     IN  Goto(t, frame[t].handler,
              [frame[t] EXCEPT !.session_data = session_data])
  /\ UNCHANGED << _sessions, _nodeid, _sequence_num, heap, issued,
                  run, accepted, mem, dec, probe >>

\* session_data = self._sessions.get(key); release; return session_data.
GetSessionData_get(t) ==
  /\ pc[t] = "GetSessionData_get"
  /\ repo_mutex' = "free"
  /\ LET key == frame[t].session_id
         session_data == IF HasKey(_sessions, key) THEN _sessions[key] ELSE 0
     IN  Goto(t, frame[t].handler,
              [frame[t] EXCEPT !.session_data = session_data])
  /\ UNCHANGED << _sessions, _nodeid, _sequence_num, heap, issued,
                  run, accepted, mem, dec, probe >>

\* ------------------------------------------- WaxHandler: item dispatching
UnchangedRepo == UNCHANGED << _sessions, _nodeid, _sequence_num, repo_mutex,
                              issued, run, accepted, mem, dec, probe >>

\* A _HandleSessionMethod that decodes the body of a POST before it tests the
\* result of the lookup.
_HandleSessionMethod_bodyfirst(t) ==
  /\ pc[t] = "_HandleSessionMethod"
  /\ UNCHANGED heap
  /\ UnchangedRepo
  /\ LET f == frame[t]
         body == f.body
     IN  IF f.method = "POST" /\ JsonRaises(body)
         THEN Raise(t, JsonError(body))
         ELSE IF f.method = "POST" /\ ~JsonTruthy(body)
         THEN Respond(t, JsonErrorResponse("Invalid JSON", 400))
         ELSE IF f.session_data = 0
         THEN Respond(t, JsonErrorResponse("Unknown sessionId", 404))
         ELSE IF f.method = "GET" THEN Goto(t, "GetAllItemsCopy", f)
         ELSE IF f.method # "POST"
         THEN Respond(t, JsonErrorResponse("Unhandled method", 405))
         ELSE IF ~IsObject(body) THEN Raise(t, "AttributeError")
         ELSE IF ~HasKey(body.v, "id")
         THEN Respond(t, JsonErrorResponse("JSON missing id", 400))
         ELSE Goto(t, "AddNewItem",
                   [f EXCEPT !.key = body.v["id"], !.item = body.v])

\* _HandleSessionMethod after GetSessionData, with
\* _ProcessInsertNewItemCommand up to the call of AddNewItem.
_HandleSessionMethod(t) ==
  /\ pc[t] = "_HandleSessionMethod"
  /\ UNCHANGED heap
  /\ UnchangedRepo
  /\ LET f == frame[t]
         body == f.body
     IN  IF f.session_data = 0
         THEN Respond(t, JsonErrorResponse("Unknown sessionId", 404))
         ELSE IF f.method = "GET" THEN Goto(t, "GetAllItemsCopy", f)
         ELSE IF f.method # "POST"
         THEN Respond(t, JsonErrorResponse("Unhandled method", 405))
         ELSE IF JsonRaises(body) THEN Raise(t, JsonError(body))
         ELSE IF ~JsonTruthy(body)
         THEN Respond(t, JsonErrorResponse("Invalid JSON", 400))
         ELSE IF ~IsObject(body) THEN Raise(t, "AttributeError")
         ELSE IF ~HasKey(body.v, "id")
         THEN Respond(t, JsonErrorResponse("JSON missing id", 400))
         ELSE Goto(t, "AddNewItem",
                   [f EXCEPT !.key = body.v["id"], !.item = body.v])

\* _HandleItemMethod after GetSessionData, with _ProcessUpdateItemCommand
\* up to the call of ReplaceItem.
_HandleItemMethod(t) ==
  /\ pc[t] = "_HandleItemMethod"
  /\ UNCHANGED heap
  /\ UnchangedRepo
  /\ LET f == frame[t]
         body == f.body
         with_id == IF HasKey(body.v, "id") THEN body.v
                    ELSE SetKey(body.v, "id", f.key)
     IN  IF f.session_data = 0
         THEN Respond(t, JsonErrorResponse("Unknown sessionId", 404))
         ELSE IF f.method = "GET" THEN Goto(t, "GetItemCopy", f)
         ELSE IF f.method = "DELETE" THEN Goto(t, "DeleteItem", f)
         ELSE IF JsonRaises(body) THEN Raise(t, JsonError(body))
         ELSE IF ~JsonTruthy(body)
         THEN Respond(t, JsonErrorResponse("Invalid JSON", 400))
         ELSE IF f.method = "PATCH"
         THEN Goto(t, "PatchItem", [f EXCEPT !.item = body.v])
         ELSE IF f.method # "PUT"
         THEN Respond(t, JsonErrorResponse("Unhandled method", 405))
         ELSE IF ~IsObject(body) THEN Raise(t, "AttributeError")
         ELSE IF with_id["id"] # f.key
         THEN Respond(t, JsonErrorResponse("Mismatched item ids", 400))
         ELSE Goto(t, "ReplaceItem", [f EXCEPT !.item = with_id])

\* ------------------------------------------------ SessionData operations
\* The SessionData the handler of t holds a reference to.
Self(t) == heap[frame[t].session_data]

\* SetItems on a list shared by every SessionData (a class-level _items).
SetItems_shared(t, list) ==
  [o \in DOMAIN heap |-> [heap[o] EXCEPT !._items = list]]

SetItems(t, list) == [heap EXCEPT ![frame[t].session_data]._items = list]

SetMutex(h, t, holder) == [h EXCEPT ![frame[t].session_data]._mutex = holder]

\* self._mutex.acquire() of a SessionData method entered at `label`.
Acquire(t, label, next, f) ==
  /\ pc[t] = label
  /\ Self(t)._mutex = "free"
  /\ heap' = SetMutex(heap, t, t)
  /\ Goto(t, next, f)
  /\ UnchangedRepo

\* session_item = self._FindItem(key)
Find(t, label, next) ==
  /\ pc[t] = label
  /\ Goto(t, next, [frame[t] EXCEPT
                      !.session_item = _FindItem(Self(t)._items, frame[t].key),
                      !.before = Self(t)._items])
  /\ UNCHANGED heap
  /\ UnchangedRepo

\* self._items.remove(session_item): ValueError if it is not in the list.
RemoveFound(t, label, next) ==
  /\ pc[t] = label
  /\ UnchangedRepo
  /\ IF Contains(Self(t)._items, frame[t].session_item)
     THEN /\ heap' = SetItems(t, Remove(Self(t)._items, frame[t].session_item))
          /\ Goto(t, next, frame[t])
     ELSE /\ heap' = heap
          /\ Raise(t, "ValueError")

\* AddNewItem entering its section without taking the session lock.
AddNewItem_acquire_nolock(t) ==
  /\ pc[t] = "AddNewItem"
  /\ heap' = SetMutex(heap, t, t)
  /\ Goto(t, "AddNewItem_find", frame[t])
  /\ UnchangedRepo

AddNewItem_acquire(t) ==
  Acquire(t, "AddNewItem", "AddNewItem_find", frame[t])

AddNewItem_find(t) == Find(t, "AddNewItem_find", "AddNewItem_append")

\* AddNewItem appending without looking at the result of _FindItem.
AddNewItem_append_nocheck(t) ==
  /\ pc[t] = "AddNewItem_append"
  /\ UnchangedRepo
  /\ LET wax == AddWaxKind(frame[t].item)
     IN  /\ heap' = SetMutex(SetItems(t, Append(Self(t)._items, wax)), t, "free")
         /\ Goto(t, "time_sleep",
                 [frame[t] EXCEPT !.wax = wax,
                                  !.response = JsonObjectResponse(wax, 200)])

\* if not found: wax = AddWaxKind(item); append(deepcopy(wax)); release;
\* then _ProcessInsertNewItemCommand picks 200 (after the delay) or 403.
AddNewItem_append(t) ==
  /\ pc[t] = "AddNewItem_append"
  /\ UnchangedRepo
  /\ IF ~Truthy(frame[t].session_item)
     THEN LET wax == AddWaxKind(frame[t].item)
          IN  /\ heap' = SetMutex(SetItems(t, Append(Self(t)._items, wax)),
                                  t, "free")
              /\ Goto(t, "time_sleep",
                      [frame[t] EXCEPT !.wax = wax,
                                       !.response = JsonObjectResponse(wax, 200)])
     ELSE /\ heap' = SetMutex(heap, t, "free")
          /\ Respond(t, JsonErrorResponse("Item already exists", 403))

\* time.sleep(3.0 / 1000.0)
time_sleep(t) ==
  /\ pc[t] = "time_sleep"
  /\ Goto(t, "_SendResponse", frame[t])
  /\ UNCHANGED heap
  /\ UnchangedRepo

\* ReplaceItem entering its section without taking the session lock.
ReplaceItem_acquire_nolock(t) ==
  /\ pc[t] = "ReplaceItem"
  /\ Goto(t, "ReplaceItem_find",
          [frame[t] EXCEPT !.wax = AddWaxKind(frame[t].item)])
  /\ UNCHANGED heap
  /\ UnchangedRepo

\* wax = self.AddWaxKind(item); self._mutex.acquire()
ReplaceItem_acquire(t) ==
  Acquire(t, "ReplaceItem", "ReplaceItem_find",
          [frame[t] EXCEPT !.wax = AddWaxKind(frame[t].item)])

ReplaceItem_find(t) == Find(t, "ReplaceItem_find", "ReplaceItem_remove")

\* if session_item: self._items.remove(session_item)
ReplaceItem_remove(t) ==
  IF pc[t] = "ReplaceItem_remove" /\ ~Truthy(frame[t].session_item)
  THEN /\ Goto(t, "ReplaceItem_append", frame[t])
       /\ UNCHANGED heap
       /\ UnchangedRepo
  ELSE RemoveFound(t, "ReplaceItem_remove", "ReplaceItem_append")

\* ReplaceItem putting the new item at the head of the list.
ReplaceItem_append_front(t) ==
  /\ pc[t] = "ReplaceItem_append"
  /\ heap' = SetMutex(SetItems(t, <<frame[t].wax>> \o Self(t)._items),
                      t, "free")
  /\ Respond(t, JsonObjectResponse(frame[t].wax, 200))
  /\ UnchangedRepo

\* self._items.append(copy.deepcopy(wax)); release; return wax
ReplaceItem_append(t) ==
  /\ pc[t] = "ReplaceItem_append"
  /\ heap' = SetMutex(SetItems(t, Append(Self(t)._items, frame[t].wax)),
                      t, "free")
  /\ Respond(t, JsonObjectResponse(frame[t].wax, 200))
  /\ UnchangedRepo

PatchItem_acquire(t) ==
  Acquire(t, "PatchItem", "PatchItem_find", frame[t])

PatchItem_find(t) == Find(t, "PatchItem_find", "PatchItem_remove")

\* if session_item: remove it; otherwise release and return None.
PatchItem_remove(t) ==
  IF pc[t] = "PatchItem_remove" /\ ~Truthy(frame[t].session_item)
  THEN /\ heap' = SetMutex(heap, t, "free")
       /\ Respond(t, JsonErrorResponse("Unknown item in session", 404))
       /\ UnchangedRepo
  ELSE RemoveFound(t, "PatchItem_remove", "PatchItem_append")

\* wax = dict(session_item.items() + item.items()); append(deepcopy(wax));
\* release; return wax. item.items() raises if the patch is not an object.
PatchItem_append(t) ==
  /\ pc[t] = "PatchItem_append"
  /\ UnchangedRepo
  /\ IF ~IsObject(frame[t].body)
     THEN /\ heap' = heap
          /\ Raise(t, "AttributeError")
     ELSE LET wax == PatchMerge(frame[t].session_item, frame[t].item)
          IN  /\ heap' = SetMutex(SetItems(t, Append(Self(t)._items, wax)),
                                  t, "free")
              /\ Respond(t, JsonObjectResponse(wax, 200))

DeleteItem_acquire(t) ==
  Acquire(t, "DeleteItem", "DeleteItem_find", frame[t])

DeleteItem_find(t) == Find(t, "DeleteItem_find", "DeleteItem_remove")

\* DeleteItem answered 204 whether or not the item was found.
DeleteItem_remove_always204(t) ==
  /\ pc[t] = "DeleteItem_remove"
  /\ UnchangedRepo
  /\ IF Contains(Self(t)._items, frame[t].session_item)
     THEN /\ heap' = SetMutex(
                       SetItems(t, Remove(Self(t)._items, frame[t].session_item)),
                       t, "free")
          /\ Respond(t, TextResponse("", 204))
     ELSE /\ heap' = SetMutex(heap, t, "free")
          /\ Respond(t, TextResponse("", 204))

\* if session_item: remove it; release; return session_item.
DeleteItem_remove(t) ==
  /\ pc[t] = "DeleteItem_remove"
  /\ UnchangedRepo
  /\ IF ~Truthy(frame[t].session_item)
     THEN /\ heap' = SetMutex(heap, t, "free")
          /\ Respond(t, JsonErrorResponse("Unknown item in session", 404))
     ELSE IF Contains(Self(t)._items, frame[t].session_item)
     THEN /\ heap' = SetMutex(
                       SetItems(t, Remove(Self(t)._items, frame[t].session_item)),
                       t, "free")
          /\ Respond(t, TextResponse("", 204))
     ELSE /\ heap' = heap
          /\ Raise(t, "ValueError")

GetItemCopy_acquire(t) ==
  Acquire(t, "GetItemCopy", "GetItemCopy_find", frame[t])

\* GetItemCopy that takes the item out of the list it reads.
GetItemCopy_find_pop(t) ==
  /\ pc[t] = "GetItemCopy_find"
  /\ UnchangedRepo
  /\ LET item_copy == _FindItem(Self(t)._items, frame[t].key)
     IN  IF Truthy(item_copy)
         THEN /\ heap' = SetMutex(SetItems(t, Remove(Self(t)._items, item_copy)),
                                  t, "free")
              /\ Respond(t, JsonObjectResponse(item_copy, 200))
         ELSE /\ heap' = SetMutex(heap, t, "free")
              /\ Respond(t, JsonErrorResponse("Unknown item", 404))

\* session_item = _FindItem(key); result = deepcopy(session_item); release.
GetItemCopy_find(t) ==
  /\ pc[t] = "GetItemCopy_find"
  /\ heap' = SetMutex(heap, t, "free")
  /\ UnchangedRepo
  /\ LET item_copy == _FindItem(Self(t)._items, frame[t].key)
     IN  IF Truthy(item_copy)
         THEN Respond(t, JsonObjectResponse(item_copy, 200))
         ELSE Respond(t, JsonErrorResponse("Unknown item", 404))

GetAllItemsCopy_acquire(t) ==
  Acquire(t, "GetAllItemsCopy", "GetAllItemsCopy_copy", frame[t])

\* result = copy.deepcopy(self._items); release.
GetAllItemsCopy_copy(t) ==
  /\ pc[t] = "GetAllItemsCopy_copy"
  /\ heap' = SetMutex(heap, t, "free")
  /\ UnchangedRepo
  /\ Respond(t, JsonObjectResponse(
                  [kind |-> "wax#waxList", items |-> Self(t)._items], 200))

\* ---------------------------------------------------------- specification
\* Every statement a handler thread can execute next.
Step ==
  \/ \E t \in Threads : _SendResponse(t)
  \/ \E t \in Threads : _ProcessNewSessionCommand(t)
  \/ \E t \in Threads : NewIdentifier_acquire(t)
  \/ \E t \in Threads : NewIdentifier_increment(t)
  \/ \E t \in Threads : NewIdentifier_register(t)
  \/ \E t \in Threads : NewIdentifier_release(t)
  \/ \E t \in Threads : _ProcessRemoveSessionCommand(t)
  \/ \E t \in Threads : RemoveIdentifier_acquire(t)
  \/ \E t \in Threads : RemoveIdentifier_pop(t)
  \/ \E t \in Threads : GetSessionData_acquire(t)
  \/ \E t \in Threads : GetSessionData_get(t)
  \/ \E t \in Threads : _HandleSessionMethod(t)
  \/ \E t \in Threads : _HandleItemMethod(t)
  \/ \E t \in Threads : AddNewItem_acquire(t)
  \/ \E t \in Threads : AddNewItem_find(t)
  \/ \E t \in Threads : AddNewItem_append(t)
  \/ \E t \in Threads : time_sleep(t)
  \/ \E t \in Threads : ReplaceItem_acquire(t)
  \/ \E t \in Threads : ReplaceItem_find(t)
  \/ \E t \in Threads : ReplaceItem_remove(t)
  \/ \E t \in Threads : ReplaceItem_append(t)
  \/ \E t \in Threads : PatchItem_acquire(t)
  \/ \E t \in Threads : PatchItem_find(t)
  \/ \E t \in Threads : PatchItem_remove(t)
  \/ \E t \in Threads : PatchItem_append(t)
  \/ \E t \in Threads : DeleteItem_acquire(t)
  \/ \E t \in Threads : DeleteItem_find(t)
  \/ \E t \in Threads : DeleteItem_remove(t)
  \/ \E t \in Threads : GetItemCopy_acquire(t)
  \/ \E t \in Threads : GetItemCopy_find(t)
  \/ \E t \in Threads : GetAllItemsCopy_acquire(t)
  \/ \E t \in Threads : GetAllItemsCopy_copy(t)

Next ==
  \/ \E t \in Threads : _DispatchMethod(t, Requests)
  \/ Step

Spec == Init /\ [][Next]_vars

\* The serving loop of main(): `while _SERVER_SETTINGS['run']:
\* server.handle_request()`.  Clients send /quit with any method among
\* requests that create sessions, list and create items, fail or are not
\* routed.  The one serving thread runs each handler to completion before the
\* loop condition is read again, so a handler step that stays enabled is
\* eventually taken; whether another request arrives is up to the clients.
ServeRequests ==
  {Req(m, QuitPath, b) : m \in Methods, b \in {Absent, Invalid}}
    \cup {Req("GET", <<"/", "bogus">>, Absent)}
    \cup {Req("POST", NewSessionPath, b) : b \in NewSessionBodies}
    \cup {Req("GET", SessionPath(s), Absent) : s \in SessionIds}
    \cup {Req("POST", SessionPath(s), b) :
            s \in SessionIds \ {"nosuch"},
            b \in {Obj([id |-> "C", name |-> "old", extra |-> [x |-> 1]]),
                   Invalid}}

ServeStep ==
  \/ \E t \in Threads : _SendResponse(t)
  \/ \E t \in Threads : _ProcessNewSessionCommand(t)
  \/ \E t \in Threads : NewIdentifier_acquire(t)
  \/ \E t \in Threads : NewIdentifier_increment(t)
  \/ \E t \in Threads : NewIdentifier_register(t)
  \/ \E t \in Threads : NewIdentifier_release(t)
  \/ \E t \in Threads : GetSessionData_acquire(t)
  \/ \E t \in Threads : GetSessionData_get(t)
  \/ \E t \in Threads : _HandleSessionMethod(t)
  \/ \E t \in Threads : AddNewItem_acquire(t)
  \/ \E t \in Threads : AddNewItem_find(t)
  \/ \E t \in Threads : AddNewItem_append(t)
  \/ \E t \in Threads : time_sleep(t)
  \/ \E t \in Threads : GetAllItemsCopy_acquire(t)
  \/ \E t \in Threads : GetAllItemsCopy_copy(t)

ServeNext ==
  \/ \E t \in Threads : _DispatchMethod(t, ServeRequests)
  \/ ServeStep

FairSpec == Init /\ [][ServeNext]_vars /\ WF_vars(ServeStep)

\* A threaded server: several handler threads create sessions, remove
\* sessions and create items against the same Repository.
CreateRaceRequests ==
  {Req("POST", NewSessionPath, Obj([sessionName |-> b])) : b \in Basenames}
    \cup {Req("POST", RemoveSessionPath, Obj([sessionId |-> s])) :
            s \in SessionIds \ {"nosuch"}}
    \cup {Req("POST", SessionPath(s), b) :
            s \in SessionIds \ {"nosuch"},
            b \in {Obj([id |-> "C", name |-> "old", extra |-> [x |-> 1]])}}

CreateRaceInit == InitWith({"w1", "w2", "w3"})

CreateRaceNext ==
  \/ \E t \in Threads : _DispatchMethod(t, CreateRaceRequests)
  \/ \E t \in Threads : _SendResponse(t)
  \/ \E t \in Threads : _ProcessNewSessionCommand(t)
  \/ \E t \in Threads : NewIdentifier_acquire(t)
  \/ \E t \in Threads : NewIdentifier_increment(t)
  \/ \E t \in Threads : NewIdentifier_register(t)
  \/ \E t \in Threads : NewIdentifier_release(t)
  \/ \E t \in Threads : _ProcessRemoveSessionCommand(t)
  \/ \E t \in Threads : RemoveIdentifier_acquire(t)
  \/ \E t \in Threads : RemoveIdentifier_pop(t)
  \/ \E t \in Threads : GetSessionData_acquire(t)
  \/ \E t \in Threads : GetSessionData_get(t)
  \/ \E t \in Threads : _HandleSessionMethod(t)
  \/ \E t \in Threads : AddNewItem_acquire(t)
  \/ \E t \in Threads : AddNewItem_find(t)
  \/ \E t \in Threads : AddNewItem_append(t)
  \/ \E t \in Threads : time_sleep(t)

CreateRaceSpec == CreateRaceInit /\ [][CreateRaceNext]_vars

\* ------------------------------------ SessionData at the level of objects
\* One SessionData and one caller, with every dict and list an object of
\* its own: each method is run as a whole (the caller is alone, so the lock
\* plays no part) and the caller may afterwards change any object it can
\* reach. Items passed in are objects the caller holds.
MaxCalls == 4

\* Dicts a caller builds: items with and without a nested value, and patches.
CallerDicts ==
  { [id |-> "C", name |-> "old", extra |-> [x |-> 1]],
    [id |-> "A", name |-> "new"],
    [name |-> "X", extra |-> [y |-> 2]] }

Keys == {"A", "C"}

ServerVars == << _sessions, _nodeid, _sequence_num, repo_mutex, heap, run,
                 pc, frame, resp, issued, accepted, probe >>

\* The elements of self._items.
ItemRefs == mem.objs[mem._items].elems

\* _FindItem on objects: the position of the first item whose id is key, or 0.
FindRef(key) ==
  LET hits == {i \in DOMAIN ItemRefs : mem.objs[ItemRefs[i]].f["id"] = key}
  IN  IF hits = {} THEN 0
      ELSE CHOOSE i \in hits : \A j \in hits : i <= j

\* The dict objects the caller holds (what it can pass as an item).
CallerItems == {r \in mem.caller : mem.objs[r].t = "dict"}

\* Those of them with an id: what the handlers pass to AddNewItem(id, item)
\* and ReplaceItem(id, item).
CallerItemsWithId == {r \in CallerItems : HasKey(mem.objs[r].f, "id")}

\* Everything the caller can reach, and everything the store can reach.
CallerReach == UNION {Reach(mem.objs, r) : r \in mem.caller}

StoreReach == Reach(mem.objs, mem._items)

\* A call `op` ends: memory objs with _items holding elems, and the caller
\* now also holding the objects in held.
Return(op, objs, elems, held) ==
  /\ mem.calls < MaxCalls
  /\ mem' = [mem EXCEPT !.objs = [objs EXCEPT ![mem._items].elems = elems],
                        !.caller = @ \cup held,
                        !.calls = @ + 1,
                        !.op = op]
  /\ UNCHANGED << ServerVars, dec >>

\* item['kind'] = 'wax#waxDataItem' on the object itself.
AddWaxKindTo(objs, item) ==
  [objs EXCEPT ![item].f = AddWaxKind(objs[item].f)]

\* The caller builds a dict, nested values as objects of their own.
CallerCreates(d) ==
  LET nested == DOMAIN d \cap RefFields
      base == Len(mem.objs)
      k == CHOOSE x \in nested : TRUE
  IN  IF nested = {}
      THEN Return("create", Append(mem.objs, DictObject(d)), ItemRefs,
                  {base + 1})
      ELSE Return("create",
                  mem.objs \o << DictObject(d[k]),
                                 DictObject([d EXCEPT ![k] = base + 1]) >>,
                  ItemRefs, {base + 2})

\* SessionData.AddNewItem(key, item).
AddNewItem(key, item) ==
  IF FindRef(key) # 0
  THEN Return("AddNewItem", mem.objs, ItemRefs, {})
  ELSE LET c == deepcopy(AddWaxKindTo(mem.objs, item), item)
       IN  Return("AddNewItem", c.objs, Append(ItemRefs, c.id), {item})

\* SessionData.ReplaceItem(key, item).
ReplaceItem(key, item) ==
  LET at == FindRef(key)
      kept == IF at # 0 THEN DropAt(ItemRefs, at) ELSE ItemRefs
      c == deepcopy(AddWaxKindTo(mem.objs, item), item)
  IN  Return("ReplaceItem", c.objs, Append(kept, c.id), {item})

\* SessionData.PatchItem(key, item): wax is a new dict whose values are the
\* very values of session_item and item.
PatchItem(key, item) ==
  LET at == FindRef(key)
      session_item == ItemRefs[at]
      wax == Len(mem.objs) + 1
      merged == Append(mem.objs,
                       DictObject(PatchMerge(mem.objs[session_item].f,
                                             mem.objs[item].f)))
      c == deepcopy(merged, wax)
  IN  IF at = 0
      THEN Return("PatchItem", mem.objs, ItemRefs, {})
      ELSE Return("PatchItem", c.objs, Append(DropAt(ItemRefs, at), c.id),
                  {wax})

\* SessionData.DeleteItem(key): the stored object itself is returned.
DeleteItem(key) ==
  LET at == FindRef(key)
  IN  IF at = 0
      THEN Return("DeleteItem", mem.objs, ItemRefs, {})
      ELSE Return("DeleteItem", mem.objs, DropAt(ItemRefs, at),
                  {ItemRefs[at]})

\* SessionData.GetItemCopy(key).
GetItemCopy(key) ==
  LET at == FindRef(key)
      c == deepcopy(mem.objs, ItemRefs[at])
  IN  IF at = 0
      THEN Return("GetItemCopy", mem.objs, ItemRefs, {})
      ELSE Return("GetItemCopy", c.objs, ItemRefs, {c.id})

\* SessionData.GetAllItemsCopy().
GetAllItemsCopy ==
  LET c == deepcopy(mem.objs, mem._items)
  IN  Return("GetAllItemsCopy", c.objs, c.objs[mem._items].elems, {c.id})

\* The caller changes an object it can reach: it sets a field of a dict or
\* drops the first element of a list.
CallerMutates(id) ==
  /\ mem.calls < MaxCalls
  /\ \/ mem.objs[id].t = "dict"
     \/ mem.objs[id].elems # <<>>
  /\ mem' = [mem EXCEPT
               !.objs[id] = IF @.t = "dict"
                            THEN [@ EXCEPT !.f = SetKey(@, "name", "changed")]
                            ELSE [@ EXCEPT !.elems = Tail(@)],
               !.calls = @ + 1,
               !.op = "mutate"]
  /\ UNCHANGED << ServerVars, dec >>

ObjectNext ==
  \/ \E d \in CallerDicts : CallerCreates(d)
  \/ \E item \in CallerItemsWithId : AddNewItem(mem.objs[item].f["id"], item)
  \/ \E item \in CallerItemsWithId : ReplaceItem(mem.objs[item].f["id"], item)
  \/ \E key \in Keys, item \in CallerItems : PatchItem(key, item)
  \/ \E key \in Keys : DeleteItem(key)
  \/ \E key \in Keys : GetItemCopy(key)
  \/ GetAllItemsCopy
  \/ \E id \in CallerReach : CallerMutates(id)

ObjectSpec == Init /\ [][ObjectNext]_vars

\* ------------------------------------------------ decoding chunked bodies
\* _ReadChunkedPayload run on the body a client framed from up to MaxChunks
\* chunks of data, with size lines in either case, with or without a leading
\* zero, and with at most one size line whose terminator is not \r\n.
MaxChunks == 3
DataLens  == {1, 10, 17}

Block(n, fill) == [i \in 1..n |-> fill]
ChunkLists ==
  LET Blocks == {Block(n, fill) : n \in DataLens, fill \in {"x", "0"}}
  IN  UNION {[1..k -> Blocks] : k \in 1..MaxChunks}

Damages(chunks) ==
  {NoDamage}
    \cup {[line |-> i, kind |-> k] :
            i \in 1..(Len(chunks) + 1), k \in {"not_cr", "not_lf"}}

DecoderInit ==
  /\ ServerInit({"main"})
  /\ probe = NoProbe
  /\ \E chunks \in ChunkLists, upper \in BOOLEAN, pad \in BOOLEAN :
       \E damage \in Damages(chunks) :
         LET rfile == ChunkedBody(chunks, upper, pad, damage)
         IN  dec = [NoDecoding EXCEPT !.chunks = chunks, !.damage = damage,
                                      !.rfile = rfile, !.at = "read_size"]

\* The inner loop reads a byte of a size line.
ReadSize ==
  /\ dec.at = "read_size"
  /\ dec' = ReadStep(dec)
  /\ UNCHANGED << ServerVars, mem >>

\* payload.append(self.rfile.read(chunk_len))
ReadChunk ==
  /\ dec.at = "read_chunk"
  /\ dec' = ReadStep(dec)
  /\ UNCHANGED << ServerVars, mem >>

DecoderNext ==
  \/ ReadSize
  \/ ReadChunk

DecoderSpec == DecoderInit /\ [][DecoderNext]_vars

\* _ReadChunkedPayload run on any stream: every string of up to MaxStream
\* bytes drawn from digits, a letter that is no digit, \r and \n, and every
\* body framed from up to MaxChunks chunks cut off after any number of bytes
\* (the client closed the connection there). The loop runs without waiting
\* for anything but the stream, so it always takes its next step.
MaxStream == 4

StreamInit ==
  LET StreamBytes == {"1", "a", "0", "x", CR, LF}
      AnyStreams == UNION {[1..n -> StreamBytes] : n \in 0..MaxStream}
      Cuts(body) == {SubSeq(body, 1, n) : n \in 0..Len(body)}
      CutStreams ==
        UNION {Cuts(ChunkedBody(chunks, FALSE, FALSE, NoDamage)) :
                 chunks \in UNION {[1..k -> {Block(n, "x") : n \in DataLens}] :
                                     k \in 1..MaxChunks}}
  IN  /\ ServerInit({"main"})
      /\ probe = NoProbe
      /\ \E rfile \in AnyStreams \cup CutStreams :
           dec = [NoDecoding EXCEPT !.rfile = rfile, !.at = "read_size"]

StreamSpec == StreamInit /\ [][DecoderNext]_vars /\ WF_vars(DecoderNext)

\* ------------------------------------------ concurrent requests on items
\* Two handler threads serve requests on the items of one session: reads of
\* item A and of the list, and PUT, PATCH and DELETE of item A.
ItemRaceRequests ==
  IF issued = << >>
  THEN {Req("POST", NewSessionPath, Obj([sessionName |-> "s"]))}
  ELSE {Req("GET", p, Absent) :
          p \in {SessionPath(issued[1]), ItemPath(issued[1], "A")}}
         \cup {Req("DELETE", ItemPath(issued[1], "A"), Absent)}
         \cup {Req("PUT", ItemPath(issued[1], "A"), Obj([name |-> "X"]))}
         \cup {Req("PATCH", ItemPath(issued[1], "A"), b) :
                 b \in {Obj([name |-> "Y"]), Array}}

ItemRaceInit == InitWith({"w1", "w2"})

ItemRaceNext ==
  \/ \E t \in Threads : _DispatchMethod(t, ItemRaceRequests)
  \/ \E t \in Threads : _SendResponse(t)
  \/ \E t \in Threads : _ProcessNewSessionCommand(t)
  \/ \E t \in Threads : NewIdentifier_acquire(t)
  \/ \E t \in Threads : NewIdentifier_increment(t)
  \/ \E t \in Threads : NewIdentifier_register(t)
  \/ \E t \in Threads : NewIdentifier_release(t)
  \/ \E t \in Threads : GetSessionData_acquire(t)
  \/ \E t \in Threads : GetSessionData_get(t)
  \/ \E t \in Threads : _HandleSessionMethod(t)
  \/ \E t \in Threads : _HandleItemMethod(t)
  \/ \E t \in Threads : ReplaceItem_acquire(t)
  \/ \E t \in Threads : ReplaceItem_find(t)
  \/ \E t \in Threads : ReplaceItem_remove(t)
  \/ \E t \in Threads : ReplaceItem_append(t)
  \/ \E t \in Threads : PatchItem_acquire(t)
  \/ \E t \in Threads : PatchItem_find(t)
  \/ \E t \in Threads : PatchItem_remove(t)
  \/ \E t \in Threads : PatchItem_append(t)
  \/ \E t \in Threads : DeleteItem_acquire(t)
  \/ \E t \in Threads : DeleteItem_find(t)
  \/ \E t \in Threads : DeleteItem_remove(t)
  \/ \E t \in Threads : GetItemCopy_acquire(t)
  \/ \E t \in Threads : GetItemCopy_find(t)
  \/ \E t \in Threads : GetAllItemsCopy_acquire(t)
  \/ \E t \in Threads : GetAllItemsCopy_copy(t)

ItemRaceSpec == ItemRaceInit /\ [][ItemRaceNext]_vars

\* ---------------------------------- removal concurrent with item requests
\* Two handler threads create sessions, remove them, and read, replace and
\* delete item A of them and read their lists, in any interleaving.
RemoveRaceRequests ==
  {Req("POST", NewSessionPath, Obj([sessionName |-> "s"]))}
    \cup {Req("POST", RemoveSessionPath, Obj([sessionId |-> s])) :
            s \in SessionIds \ {"nosuch"}}
    \cup {Req("GET", p, Absent) :
            p \in UNION {{SessionPath(s), ItemPath(s, "A")} :
                           s \in SessionIds \ {"nosuch"}}}
    \cup {Req("DELETE", ItemPath(s, "A"), Absent) :
            s \in SessionIds \ {"nosuch"}}
    \cup {Req("PUT", ItemPath(s, "A"), Obj([name |-> "X"])) :
            s \in SessionIds \ {"nosuch"}}

RemoveRaceNext ==
  \/ \E t \in Threads : _DispatchMethod(t, RemoveRaceRequests)
  \/ \E t \in Threads : _SendResponse(t)
  \/ \E t \in Threads : _ProcessNewSessionCommand(t)
  \/ \E t \in Threads : NewIdentifier_acquire(t)
  \/ \E t \in Threads : NewIdentifier_increment(t)
  \/ \E t \in Threads : NewIdentifier_register(t)
  \/ \E t \in Threads : NewIdentifier_release(t)
  \/ \E t \in Threads : _ProcessRemoveSessionCommand(t)
  \/ \E t \in Threads : RemoveIdentifier_acquire(t)
  \/ \E t \in Threads : RemoveIdentifier_pop(t)
  \/ \E t \in Threads : GetSessionData_acquire(t)
  \/ \E t \in Threads : GetSessionData_get(t)
  \/ \E t \in Threads : _HandleSessionMethod(t)
  \/ \E t \in Threads : _HandleItemMethod(t)
  \/ \E t \in Threads : ReplaceItem_acquire(t)
  \/ \E t \in Threads : ReplaceItem_find(t)
  \/ \E t \in Threads : ReplaceItem_remove(t)
  \/ \E t \in Threads : ReplaceItem_append(t)
  \/ \E t \in Threads : DeleteItem_acquire(t)
  \/ \E t \in Threads : DeleteItem_find(t)
  \/ \E t \in Threads : DeleteItem_remove(t)
  \/ \E t \in Threads : GetItemCopy_acquire(t)
  \/ \E t \in Threads : GetItemCopy_find(t)
  \/ \E t \in Threads : GetAllItemsCopy_acquire(t)
  \/ \E t \in Threads : GetAllItemsCopy_copy(t)

RemoveRaceSpec == ItemRaceInit /\ [][RemoveRaceNext]_vars

\* ------------------------------------------------- a request sent twice
\* A client creates a session, sends requests that change its items, then
\* sends one request (the probe: a PUT or a DELETE of an item, or a POST that
\* creates one) twice in a row. Between the two it notes the item list of
\* the session and the status it was answered.
ProbeRequests ==
  {[NoProbe EXCEPT !.method = "DELETE", !.key = k, !.body = Absent] :
     k \in ItemIds}
    \cup {[NoProbe EXCEPT !.method = "PUT", !.key = k,
                          !.body = Obj([name |-> "X", extra |-> [y |-> 2]])] :
            k \in ItemIds}
    \cup {[NoProbe EXCEPT !.method = "POST", !.key = k,
                          !.body = Obj([id |-> k, name |-> "old"])] :
            k \in {"A", "C"}}

\* The probe as a request on session s.
ProbeOn(s) ==
  Req(probe.method,
      IF probe.method = "POST" THEN SessionPath(s) ELSE ItemPath(s, probe.key),
      probe.body)

SetupRequests(s) ==
  {Req("DELETE", ItemPath(s, i), Absent) : i \in {"A", "B"}}
    \cup {Req("POST", SessionPath(s), Obj([id |-> "C", name |-> "old"]))}
    \cup {Req("PUT", ItemPath(s, "A"), Obj([name |-> "X"]))}
    \cup {Req("PATCH", ItemPath(s, "A"), b) :
            b \in {Obj([name |-> "X"]), Obj([id |-> "B", kind |-> "other"])}}

\* What the client sends next: the session first, the probe as the last two
\* requests, the second time once it has noted the outcome of the first.
IdemRequests ==
  IF accepted = 0
  THEN {Req("POST", NewSessionPath, Obj([sessionName |-> "s"]))}
  ELSE IF accepted < MaxRequests - 2 THEN SetupRequests(issued[1])
  ELSE IF accepted = MaxRequests - 2 \/ probe.seen THEN {ProbeOn(issued[1])}
  ELSE {}

\* The item list of the client's session.
ProbedItems == heap[_sessions[issued[1]]]._items

\* The first probe has been answered: the client notes the outcome.
Observe ==
  /\ accepted = MaxRequests - 1
  /\ pc["main"] = "idle"
  /\ ~probe.seen
  /\ probe' = [probe EXCEPT !.seen = TRUE, !.once = ProbedItems,
                            !.answer = resp["main"].code]
  /\ UNCHANGED << _sessions, _nodeid, _sequence_num, repo_mutex, heap, run,
                  pc, frame, resp, issued, accepted, mem, dec >>

IdemInit ==
  /\ ServerInit({"main"})
  /\ dec = NoDecoding
  /\ probe \in ProbeRequests

IdemNext ==
  \/ \E t \in Threads : _DispatchMethod(t, IdemRequests)
  \/ Observe
  \/ \E t \in Threads : _SendResponse(t)
  \/ \E t \in Threads : _ProcessNewSessionCommand(t)
  \/ \E t \in Threads : NewIdentifier_acquire(t)
  \/ \E t \in Threads : NewIdentifier_increment(t)
  \/ \E t \in Threads : NewIdentifier_register(t)
  \/ \E t \in Threads : NewIdentifier_release(t)
  \/ \E t \in Threads : GetSessionData_acquire(t)
  \/ \E t \in Threads : GetSessionData_get(t)
  \/ \E t \in Threads : _HandleSessionMethod(t)
  \/ \E t \in Threads : _HandleItemMethod(t)
  \/ \E t \in Threads : AddNewItem_acquire(t)
  \/ \E t \in Threads : AddNewItem_find(t)
  \/ \E t \in Threads : AddNewItem_append(t)
  \/ \E t \in Threads : time_sleep(t)
  \/ \E t \in Threads : ReplaceItem_acquire(t)
  \/ \E t \in Threads : ReplaceItem_find(t)
  \/ \E t \in Threads : ReplaceItem_remove(t)
  \/ \E t \in Threads : ReplaceItem_append(t)
  \/ \E t \in Threads : PatchItem_acquire(t)
  \/ \E t \in Threads : PatchItem_find(t)
  \/ \E t \in Threads : PatchItem_remove(t)
  \/ \E t \in Threads : PatchItem_append(t)
  \/ \E t \in Threads : DeleteItem_acquire(t)
  \/ \E t \in Threads : DeleteItem_find(t)
  \/ \E t \in Threads : DeleteItem_remove(t)

IdemSpec == IdemInit /\ [][IdemNext]_vars

\* ----------------------------------------------------------------- claims
\* Number of items of `list` whose id is k.
CountId(list, k) == Cardinality({i \in DOMAIN list : list[i]["id"] = k})

HasId(list, k) == \E i \in DOMAIN list : list[i]["id"] = k

Last(list) == list[Len(list)]

\* Thread t executes a statement in this step.
Moves(t) == pc'[t] # pc[t]

\* C1: in every reachable state no two items of a session have the same id.
C1_ItemIdsUnique ==
  \A o \in DOMAIN heap :
    \A i, j \in DOMAIN heap[o]._items :
      heap[o]._items[i]["id"] = heap[o]._items[j]["id"] => i = j

\* C2: every successful create, replace and patch stores and returns an item
\* whose kind is 'wax#waxDataItem', whatever kind the body supplied.
C2_KindStampedOnMutation ==
  [][\A t \in Threads :
       ( /\ pc[t] \in {"AddNewItem_append", "ReplaceItem_append", "PatchItem_append"}
         /\ pc'[t] \in {"time_sleep", "_SendResponse"}
         /\ frame'[t].response.code = 200 )
       => /\ Last(heap'[frame[t].session_data]._items)["kind"] = WaxKind
          /\ frame'[t].response.json["kind"] = WaxKind]_vars

\* C3: the identifiers NewIdentifier returns are pairwise distinct, also
\* across removals, and the i-th one carries sequence number i.
C3_IdentifiersUnique ==
  /\ \A i, j \in DOMAIN issued : i # j => issued[i] # issued[j]
  /\ \A i \in DOMAIN issued :
       \E b \in Basenames : issued[i] = b \o "-" \o _nodeid \o "-" \o ToString(i)
  /\ Len(issued) <= _sequence_num

C3_Witness ==
  /\ Len(issued) >= 2
  /\ issued[1] \notin DOMAIN _sessions
  /\ issued[2] \in DOMAIN _sessions

C5_SessionLifetime ==
  [][/\ \A k \in DOMAIN _sessions :
          IF k \in DOMAIN _sessions'
          THEN _sessions'[k] = _sessions[k]
          ELSE \E t \in Threads :
                 pc[t] = "RemoveIdentifier_pop" /\ frame[t].key = k /\ Moves(t)
     /\ \A i \in DOMAIN issued :
          issued[i] \notin DOMAIN _sessions => issued[i] \notin DOMAIN _sessions']_vars

C5_Witness ==
  \E i \in DOMAIN issued :
    /\ issued[i] \notin DOMAIN _sessions
    /\ Len(issued) > i
    /\ \E t \in Threads :
         /\ pc[t] = "_SendResponse"
         /\ frame[t].session_id = issued[i]
         /\ frame[t].response.code = 404

\* C6: a step of an item request addressed to session s leaves the set of
\* registered identifiers and the items of every other session unchanged.
C6_SessionsIsolated ==
  [][\A t \in Threads :
       ( /\ frame[t].handler \in {"_HandleItemMethod", "_HandleSessionMethod"}
         /\ Moves(t) )
       => /\ _sessions' = _sessions
          /\ \A s \in DOMAIN _sessions :
               s # frame[t].session_id
               => heap'[_sessions[s]]._items = heap[_sessions[s]]._items]_vars

C6_Witness ==
  \E s1, s2 \in DOMAIN _sessions :
    /\ s1 # s2
    /\ Len(heap[_sessions[s1]]._items) = 3
    /\ Len(heap[_sessions[s2]]._items) = 2

\* C7: AddNewItem on an id that is already present returns None (answered
\* 403) and leaves the item list as it was.
C7_AddExistingRejected ==
  [][\A t \in Threads :
       ( /\ pc[t] = "AddNewItem_append"
         /\ Moves(t)
         /\ HasId(heap[frame[t].session_data]._items, frame[t].key) )
       => /\ heap'[frame[t].session_data]._items
               = heap[frame[t].session_data]._items
          /\ frame'[t].response.code = 403
          /\ ~Truthy(frame'[t].wax)]_vars

C7_Witness ==
  \E t \in Threads :
    /\ pc[t] = "_SendResponse"
    /\ frame[t].handler = "_HandleSessionMethod"
    /\ frame[t].response.code = 403
    /\ frame[t].key = "C"
    /\ _FindItem(heap[frame[t].session_data]._items, "C")
         = [id |-> "C", name |-> "old", extra |-> [x |-> 1], kind |-> WaxKind]

\* C8: under every interleaving the check-then-insert of AddNewItem is
\* atomic: the check still holds when the item is inserted, an insert is
\* answered 200 and a conflict 403, the id is then present exactly once,
\* and no two requests in flight both succeed for the same id.
C8_CreateAtomic ==
  /\ [](\A t1, t2 \in Threads :
          ( /\ t1 # t2
            /\ pc[t1] \in {"time_sleep", "_SendResponse"}
            /\ pc[t2] \in {"time_sleep", "_SendResponse"}
            /\ frame[t1].session_data = frame[t2].session_data
            /\ frame[t1].key = frame[t2].key
            /\ frame[t1].session_data # 0 )
          => ~(frame[t1].response.code = 200 /\ frame[t2].response.code = 200))
  /\ [][\A t \in Threads :
          (pc[t] = "AddNewItem_append" /\ Moves(t))
          => LET old == heap[frame[t].session_data]._items
                 new == heap'[frame[t].session_data]._items
             IN  /\ Truthy(frame[t].session_item) <=> HasId(old, frame[t].key)
                 /\ IF HasId(old, frame[t].key)
                    THEN new = old /\ frame'[t].response.code = 403
                    ELSE /\ new = Append(old, AddWaxKind(frame[t].item))
                         /\ frame'[t].response.code = 200
                 /\ CountId(new, frame[t].key) = 1]_vars

C8_Witness ==
  \E t1, t2 \in Threads :
    /\ t1 # t2
    /\ pc[t1] = "time_sleep"
    /\ pc[t2] = "_SendResponse"
    /\ frame[t1].session_data = frame[t2].session_data
    /\ frame[t1].key = "C" /\ frame[t2].key = "C"
    /\ frame[t1].response.code = 200
    /\ frame[t2].response.code = 403
    /\ CountId(heap[frame[t1].session_data]._items, "C") = 1

\* C9: after ReplaceItem(k, v) the session holds exactly one item for k, and
\* it is v plus kind.
C9_ReplaceIsUpsert ==
  [][\A t \in Threads :
       (pc[t] = "ReplaceItem_append" /\ Moves(t))
       => LET new == heap'[frame[t].session_data]._items
          IN  /\ CountId(new, frame[t].key) = 1
              /\ _FindItem(new, frame[t].key) = SetKey(frame[t].item, "kind", WaxKind)
              /\ frame'[t].response.code = 200]_vars

\* C10: PatchItem(k, p) on a stored item with an object p stores and returns
\* the shallow merge: p's fields with p's values, the other fields of the
\* stored item with their old values.
C10_PatchIsShallowMerge ==
  [][\A t \in Threads :
       (pc[t] = "PatchItem_append" /\ Moves(t) /\ IsObject(frame[t].body))
       => LET p == frame[t].body.v
              old == frame[t].session_item
              stored == Last(heap'[frame[t].session_data]._items)
              returned == frame'[t].response.json
          IN  /\ DOMAIN stored = DOMAIN old \cup DOMAIN p
              /\ \A f \in DOMAIN p : stored[f] = p[f]
              /\ \A f \in DOMAIN old \ DOMAIN p : stored[f] = old[f]
              /\ returned = stored
              /\ frame'[t].response.code = 200
              /\ old["id"] = frame[t].key]_vars

C10_Witness ==
  \E t \in Threads :
    /\ pc[t] = "_SendResponse"
    /\ frame[t].method = "PATCH"
    /\ frame[t].session_item
         = [id |-> "C", name |-> "old", extra |-> [x |-> 1], kind |-> WaxKind]
    /\ frame[t].response.json
         = [id |-> "C", name |-> "X", extra |-> [y |-> 2], kind |-> WaxKind]
    /\ Last(heap[frame[t].session_data]._items) = frame[t].response.json

\* C11: DeleteItem(k) on an absent key signals absent and leaves the list as
\* it was; on a present key it returns the stored item of id k, removes it
\* without touching the other items or their order, and k is then absent
\* (a following GetItemCopy(k) finds nothing).
C11_DeleteRemovesKey ==
  [][\A t \in Threads :
       (pc[t] = "DeleteItem_remove" /\ Moves(t))
       => LET old == heap[frame[t].session_data]._items
              new == heap'[frame[t].session_data]._items
              k == frame[t].key
          IN  IF ~HasId(old, k)
              THEN /\ new = old
                   /\ ~Truthy(frame[t].session_item)
                   /\ frame'[t].response.code = 404
              ELSE /\ \E i \in DOMAIN old :
                        /\ old[i] = frame[t].session_item
                        /\ old[i]["id"] = k
                        /\ new = DropAt(old, i)
                   /\ ~Truthy(_FindItem(new, k))]_vars

C13_DeepCopyIsolation ==
  /\ [](CallerReach \cap StoreReach = {})
  /\ [][mem'.op = "mutate" /\ mem'.calls # mem.calls
          => Value(mem'.objs, mem'._items) = Value(mem.objs, mem._items)]_vars

C13_Witness ==
  /\ mem.op = "mutate"
  /\ Len(ItemRefs) = 3
  /\ \E r \in mem.caller :
       /\ mem.objs[r].t = "list"
       /\ Len(mem.objs[r].elems) = 3
       /\ \E id \in Reach(mem.objs, r) \ {r} :
            /\ id \notin {mem.objs[r].elems[i] : i \in 1..3}
            /\ mem.objs[id].f = [x |-> 1, name |-> "changed"]
  /\ Value(mem.objs, mem._items)[3]
       = [id |-> "C", name |-> "old", extra |-> [x |-> 1], kind |-> WaxKind]

\* The request of t names exactly the route /sessions/{s}/items.
OnSessionRoute(t) ==
  /\ frame[t].handler = "_HandleSessionMethod"
  /\ frame[t].path = SessionPath(frame[t].session_id)

\* The request of t names exactly the route /sessions/{s}/items/{i}.
OnItemRoute(t) ==
  /\ frame[t].handler = "_HandleItemMethod"
  /\ frame[t].path = ItemPath(frame[t].session_id, frame[t].key)

\* The body is sent as JSON and is a JSON object with the field k.
JsonWith(body, k) ==
  /\ body.t = "object"
  /\ HasKey(body.v, k)
  /\ body.content_type = _JSON_CONTENT_TYPE

\* The body is missing, is not JSON, or is JSON without the field k.
JsonWithout(body, k) ==
  \/ body.t \in {"absent", "invalid", "array"}
  \/ body.t = "object" /\ ~HasKey(body.v, k)

\* C14: POST /sessions/{s}/items is answered 404 if s is not registered;
\* otherwise 400 if the JSON body is missing, invalid or has no id; otherwise
\* 403 with the list unchanged if the session has an item of that id;
\* otherwise 200 with the stamped item, which is then last in the list.
C14_CreateItemAnswers ==
  [][\A t \in Threads :
       (Moves(t) /\ OnSessionRoute(t) /\ frame[t].method = "POST")
       => LET body == frame[t].body
              answer == frame'[t].response.code
          IN  CASE pc[t] = "_HandleSessionMethod" ->
                     IF ~HasKey(_sessions, frame[t].session_id)
                     THEN pc'[t] = "_SendResponse" /\ answer = 404
                     ELSE IF JsonWithout(body, "id")
                     THEN pc'[t] = "_SendResponse" /\ answer = 400
                     ELSE JsonWith(body, "id") => pc'[t] = "AddNewItem"
                [] pc[t] = "AddNewItem_append" ->
                     LET old == heap[frame[t].session_data]._items
                         new == heap'[frame[t].session_data]._items
                     IN  IF HasId(old, body.v["id"])
                         THEN answer = 403 /\ new = old
                         ELSE /\ answer = 200
                              /\ frame'[t].response.json
                                   = SetKey(body.v, "kind", WaxKind)
                              /\ new = Append(old, frame'[t].response.json)
                [] OTHER -> TRUE]_vars

\* C15: PUT /sessions/{s}/items/{i} on a registered session with a JSON
\* object body is answered 400 with the store unchanged if the body has an
\* id other than i; otherwise it is answered 200 and the session then holds
\* exactly one item of id i, equal to the body with id i and kind added.
C15_UpdateItemAnswers ==
  [][\A t \in Threads :
       ( /\ Moves(t) /\ OnItemRoute(t) /\ frame[t].method = "PUT"
         /\ HasKey(_sessions, frame[t].session_id)
         /\ frame[t].body.t = "object"
         /\ frame[t].body.content_type = _JSON_CONTENT_TYPE )
       => LET body == frame[t].body
              i == frame[t].key
              answer == frame'[t].response.code
              new == heap'[frame[t].session_data]._items
          IN  CASE pc[t] = "_HandleItemMethod" ->
                     IF HasKey(body.v, "id") /\ body.v["id"] # i
                     THEN /\ pc'[t] = "_SendResponse" /\ answer = 400
                          /\ heap' = heap /\ _sessions' = _sessions
                     ELSE pc'[t] = "ReplaceItem"
                [] pc[t] = "ReplaceItem_append" ->
                     /\ answer = 200
                     /\ CountId(new, i) = 1
                     /\ _FindItem(new, i)
                          = SetKey(SetKey(body.v, "id", i), "kind", WaxKind)
                [] OTHER -> TRUE]_vars

\* C16: on a registered session the absent signal of the store becomes the
\* status of the answer. GET of an absent item is answered 404, of a present
\* item 200 with that item; DELETE of an absent item 404, of a present item
\* 204 with an empty body and the item removed; PATCH of an absent item 404
\* with the store unchanged, of a present item (the patch being a JSON
\* object) 200 with the merged item.
C16_AbsentBecomesStatus ==
  [][\A t \in Threads :
       ( /\ Moves(t) /\ OnItemRoute(t)
         /\ HasKey(_sessions, frame[t].session_id) )
       => LET i == frame[t].key
              old == heap[frame[t].session_data]._items
              new == heap'[frame[t].session_data]._items
              present == HasId(old, i)
              stored == _FindItem(old, i)
              answer == frame'[t].response
          IN  CASE pc[t] = "GetItemCopy_find" ->
                     /\ new = old
                     /\ IF present
                        THEN answer.code = 200 /\ answer.json = stored
                        ELSE answer.code = 404
                [] pc[t] = "DeleteItem_remove" ->
                     IF present
                     THEN /\ answer.code = 204 /\ answer.text = ""
                          /\ ~Truthy(answer.json)
                          /\ Len(new) = Len(old) - 1
                          /\ CountId(new, i) = CountId(old, i) - 1
                     ELSE answer.code = 404 /\ new = old
                [] pc[t] = "PatchItem_remove" /\ ~present ->
                     answer.code = 404 /\ new = old
                [] pc[t] = "PatchItem_append" /\ IsObject(frame[t].body) ->
                     /\ answer.code = 200
                     /\ answer.json
                          = [f \in DOMAIN frame[t].session_item
                                     \cup DOMAIN frame[t].body.v |->
                               IF HasKey(frame[t].body.v, f)
                               THEN frame[t].body.v[f]
                               ELSE frame[t].session_item[f]]
                     /\ frame[t].session_item["id"] = i
                [] OTHER -> TRUE]_vars

C16_Witness ==
  \E t \in Threads :
    /\ pc[t] = "_SendResponse"
    /\ OnItemRoute(t)
    /\ frame[t].method = "DELETE"
    /\ frame[t].key = "A"
    /\ frame[t].response.code = 404
    /\ frame[t].session_data # 0
    /\ LET list == heap[frame[t].session_data]._items
       IN  Len(list) = 1 /\ list[1]["id"] = "B"

\* C17: POST /removesession with a JSON body naming a sessionId reaches
\* RemoveIdentifier with that id; if the id is registered the answer is 200
\* with kind 'wax#waxRemoveSession' and removeSessionId equal to the id, and
\* the id is unregistered (the other sessions stay); if it is not registered
\* (never issued, or removed before) the answer is 404 and nothing changes.
C17_RemoveSessionAnswers ==
  [][\A t \in Threads :
       (Moves(t) /\ frame[t].path = RemoveSessionPath /\ frame[t].method = "POST")
       => LET body == frame[t].body
              id == frame[t].key
              answer == frame'[t].response
          IN  CASE pc[t] = "_ProcessRemoveSessionCommand" ->
                     (JsonWith(body, "sessionId") /\ body.encoding # "none")
                     => /\ pc'[t] = "RemoveIdentifier"
                        /\ frame'[t].key = body.v["sessionId"]
                [] pc[t] = "RemoveIdentifier_pop" ->
                     /\ id = body.v["sessionId"]
                     /\ heap' = heap
                     /\ IF HasKey(_sessions, id)
                        THEN /\ answer.code = 200
                             /\ answer.json = [kind |-> "wax#waxRemoveSession",
                                                removeSessionId |-> id]
                             /\ DOMAIN _sessions' = DOMAIN _sessions \ {id}
                             /\ \A s \in DOMAIN _sessions' :
                                  _sessions'[s] = _sessions[s]
                        ELSE answer.code = 404 /\ _sessions' = _sessions
                [] OTHER -> _sessions' = _sessions /\ heap' = heap]_vars

C17_Witness ==
  \E t \in Threads :
    /\ pc[t] = "_SendResponse"
    /\ frame[t].path = RemoveSessionPath
    /\ frame[t].response.code = 404
    /\ \E i \in DOMAIN issued : issued[i] = frame[t].key
    /\ DOMAIN _sessions # {}

\* Thread t is about to read the JSON body of a request on a route that
\* needs one (for the session and item routes: the session is registered).
ReadsJson(t) ==
  \/ pc[t] \in {"_ProcessNewSessionCommand", "_ProcessRemoveSessionCommand"}
  \/ /\ pc[t] = "_HandleSessionMethod"
     /\ OnSessionRoute(t)
     /\ frame[t].method = "POST"
     /\ HasKey(_sessions, frame[t].session_id)
  \/ /\ pc[t] = "_HandleItemMethod"
     /\ OnItemRoute(t)
     /\ frame[t].method \in {"PATCH", "PUT"}
     /\ HasKey(_sessions, frame[t].session_id)

\* C18: on every route that needs a JSON body, a request whose payload is
\* empty or is not JSON is answered 400 with a JSON error, whether the body
\* came with Content-Length or with chunked transfer-encoding.
C18_BadJsonAnswered400 ==
  [][\A t \in Threads :
       ( /\ Moves(t) /\ ReadsJson(t)
         /\ frame[t].body.t \in {"absent", "invalid"}
         /\ frame[t].body.encoding \in {"length", "chunked"} )
       => /\ pc'[t] = "_SendResponse"
          /\ frame'[t].response.code = 400
          /\ frame'[t].response.content_type = _JSON_CONTENT_TYPE
          /\ frame'[t].response.json["code"] = 400]_vars

\* The field the route of t's request requires in its JSON body.
RequiredField(t) ==
  CASE pc[t] = "_ProcessNewSessionCommand" -> "sessionName"
    [] pc[t] = "_ProcessRemoveSessionCommand" -> "sessionId"
    [] OTHER -> "id"

\* C19: a request whose body is a valid JSON object without the field its
\* route requires (sessionName for POST /newsession, sessionId for POST
\* /removesession, id for POST /sessions/{s}/items) is answered 400 and
\* creates or removes no session and no item.
C19_MissingFieldAnswered400 ==
  [][\A t \in Threads :
       ( /\ Moves(t) /\ ReadsJson(t)
         /\ pc[t] # "_HandleItemMethod"
         /\ frame[t].body.t = "object"
         /\ frame[t].body.encoding \in {"length", "chunked"}
         /\ frame[t].body.content_type = _JSON_CONTENT_TYPE
         /\ ~HasKey(frame[t].body.v, RequiredField(t)) )
       => /\ pc'[t] = "_SendResponse"
          /\ frame'[t].response.code = 400
          /\ _sessions' = _sessions
          /\ heap' = heap]_vars

\* The path is one of the five routes, the pattern covering the whole path.
IsRoute(path) ==
  \/ path \in {QuitPath, NewSessionPath, RemoveSessionPath}
  \/ Len(path) = 6 /\ path = SessionPath(path[4]) /\ path[4] # "/"
  \/ /\ Len(path) = 8 /\ path = ItemPath(path[4], path[8])
     /\ path[4] # "/" /\ path[8] # "/"

\* C20: a request whose path is none of /quit, /newsession, /removesession,
\* /sessions/{s}/items and /sessions/{s}/items/{i} is answered 404 and is
\* not routed to the session or item handlers, so it changes no state; this
\* includes paths with extra characters or segments after `items` or {i}.
C20_UnknownPathAnswered404 ==
  [][\A t \in Threads :
       (pc[t] = "idle" /\ Moves(t) /\ ~IsRoute(frame'[t].path))
       => /\ pc'[t] = "_SendResponse"
          /\ frame'[t].response.code = 404
          /\ frame'[t].handler = ""
          /\ run' = run]_vars

\* C21: a request on a route of the table with a method the route does not
\* support is answered 405, whatever its body: a method other than POST on
\* /newsession and /removesession, a method other than GET and POST on the
\* items route of a registered session, a method other than GET, DELETE,
\* PATCH and PUT on the item route of a registered session.
C21_UnsupportedMethod405 ==
  [][\A t \in Threads :
       Moves(t)
       => LET req == frame'[t]
              is405 == /\ pc'[t] = "_SendResponse"
                       /\ frame'[t].response.code = 405
          IN  CASE pc[t] = "idle"
                   /\ req.path \in {NewSessionPath, RemoveSessionPath}
                   /\ req.method # "POST" -> is405
                [] pc[t] = "_HandleSessionMethod"
                   /\ OnSessionRoute(t)
                   /\ HasKey(_sessions, frame[t].session_id)
                   /\ frame[t].method \notin {"GET", "POST"} -> is405
                [] pc[t] = "_HandleItemMethod"
                   /\ OnItemRoute(t)
                   /\ HasKey(_sessions, frame[t].session_id)
                   /\ frame[t].method \notin {"GET", "DELETE", "PATCH", "PUT"}
                     -> is405
                [] OTHER -> TRUE]_vars

\* C22: every 4xx response sent is JSON with exactly the fields message and
\* code, and code is the HTTP status of the response; every 2xx response is
\* JSON, except the empty 204 body of DELETE and the plain text of /quit.
C22_ResponseBodies ==
  [][\A t \in Threads :
       (pc[t] = "_SendResponse" /\ Moves(t))
       => LET req == frame[t]
              answer == resp'[t]
              isJson == /\ answer.content_type = _JSON_CONTENT_TYPE
                        /\ answer.text = ""
          IN  /\ answer = req.response
              /\ answer.code \in 400..499
                 => /\ isJson
                    /\ DOMAIN answer.json = {"message", "code"}
                    /\ answer.json["code"] = answer.code
              /\ answer.code \in 200..299
                 => IF req.path = QuitPath
                    THEN answer = TextResponse("BYE", 200)
                    ELSE IF req.method = "DELETE"
                    THEN answer = TextResponse("", 204)
                    ELSE isJson]_vars

\* A conflict answer has been written with its status in the body.
C22_Witness ==
  \E t \in Threads :
    /\ pc[t] = "idle"
    /\ resp[t].code = 403
    /\ resp[t].json["code"] = 403

\* C24: the shutdown flag changes only in the dispatch of a request whose
\* path is /quit, and only from running to stopped; no other step of any
\* request, answered or failed, changes it, and once stopped it stays stopped.
C24_OnlyQuitStops ==
  /\ [][run' # run
        => /\ run /\ ~run'
           /\ \E t \in Threads :
                /\ pc[t] = "idle" /\ Moves(t)
                /\ frame'[t].path = QuitPath]_vars
  /\ [][~run => ~run']_vars

\* The server was stopped by /quit after it had handled at least one other
\* request, which left it running.
C24_Witness ==
  /\ ~run
  /\ accepted >= 2
  /\ resp["main"] = TextResponse("BYE", 200)

\* C23: a /quit request, with any method, sets the shutdown flag and is
\* answered 200 'BYE'; the response in flight is completed, no request is
\* accepted after the flag is cleared, and the serving loop terminates: the
\* server stays idle, stopped, with 'BYE' as the last response written.
C23_QuitTerminates ==
  /\ [][\A t \in Threads :
          (pc[t] = "idle" /\ Moves(t) /\ frame'[t].path = QuitPath)
          => /\ ~run'
             /\ pc'[t] = "_SendResponse"
             /\ frame'[t].response = TextResponse("BYE", 200)]_vars
  /\ [][~run => accepted' = accepted]_vars
  /\ ~run ~> [](/\ ~run
                /\ \A t \in Threads : pc[t] = "idle"
                /\ resp["main"] = TextResponse("BYE", 200))

\* /quit sent with DELETE, as the last of several requests, has been answered.
C23_Witness ==
  /\ ~run
  /\ pc["main"] = "idle"
  /\ accepted = MaxRequests
  /\ resp["main"] = TextResponse("BYE", 200)

\* C29: in every reachable state, every item of every registered session has
\* a `kind` field: the seed items, and the items left by any sequence of
\* POST, PUT, PATCH and DELETE requests.
C29_EveryItemHasKind ==
  \A s \in DOMAIN _sessions :
    \A i \in DOMAIN heap[_sessions[s]]._items :
      HasKey(heap[_sessions[s]]._items[i], "kind")

\* A registered session holds an item that a request created from a body
\* without `kind`, and an item whose `kind` a PATCH has overwritten.
C29_Witness ==
  \E s \in DOMAIN _sessions :
    LET list == heap[_sessions[s]]._items
    IN  /\ \E i \in DOMAIN list :
             list[i]["id"] = "C" /\ list[i]["kind"] = WaxKind
        /\ \E i \in DOMAIN list :
             HasKey(list[i], "kind") /\ list[i]["kind"] = "other"

\* The concatenation of the chunks of data, in order.
RECURSIVE Concat(_)
Concat(chunks) ==
  IF chunks = << >> THEN << >> ELSE Head(chunks) \o Concat(Tail(chunks))

\* C25: for a well-formed body of k >= 2 non-empty chunks followed by the
\* zero-size chunk, the decoder returns the concatenation of the data of all
\* k chunks, in order.
C25_AllChunksReturned ==
  (Decoded(dec) /\ dec.damage = NoDamage /\ Len(dec.chunks) >= 2)
  => /\ dec.at = "return"
     /\ dec.payload = Concat(dec.chunks)

\* C26: for a well-formed body of a single chunk of n > 0 bytes, whatever the
\* case and the number of digits of its size line, the decoder returns
\* exactly the n bytes of data; n is the base-16 value of the size line.
C26_SingleChunkReturned ==
  /\ []((Decoded(dec) /\ dec.damage = NoDamage /\ Len(dec.chunks) = 1)
        => /\ dec.at = "return"
           /\ dec.payload = dec.chunks[1])
  /\ [][(dec.at = "read_size" /\ dec'.at = "read_chunk"
          /\ dec.payload = << >>)
        => dec'.chunk_len = Len(dec.chunks[1])]_vars

\* A single chunk of 17 bytes, size line 011, has been decoded.
C26_Witness ==
  /\ dec.at = "return"
  /\ dec.damage = NoDamage
  /\ Len(dec.chunks) = 1
  /\ Len(dec.payload) = 17
  /\ SubSeq(dec.rfile, 1, 3) = << "0", "1", "1" >>

\* C27: when the terminator of a size line of a chunked body is not \r\n,
\* the request fails in _GetJson with the decoder's ValueError: no response
\* is written, and no session or item changes.
C27_MalformedChunkFails ==
  [][\A t \in Threads :
       (ReadsJson(t) /\ Moves(t) /\ frame[t].body.damage # NoDamage)
       => /\ pc'[t] = "idle"
          /\ resp'[t] = Failure("ValueError")
          /\ heap' = heap
          /\ _sessions' = _sessions
          /\ _sequence_num' = _sequence_num]_vars

\* C28: sending the same PUT twice in a row leaves the session in the state
\* in which the first one left it, and so does sending the same DELETE
\* twice; a POST that creates an item, sent again, is answered with the
\* conflict status 403 and leaves the state as the first one left it.
C28_IdempotentByRoute ==
  (probe.seen /\ accepted = MaxRequests /\ pc["main"] = "idle")
  => /\ probe.method \in {"PUT", "DELETE"} => ProbedItems = probe.once
     /\ (probe.method = "POST" /\ probe.answer = 200)
        => /\ resp["main"].code = 403
           /\ ProbedItems = probe.once

\* Thread t is between the acquire and the release of a SessionData method
\* that reads or changes the items.
InItemSection(t) ==
  pc[t] \in {"ReplaceItem_find", "ReplaceItem_remove", "ReplaceItem_append",
             "PatchItem_find", "PatchItem_remove", "PatchItem_append",
             "DeleteItem_find", "DeleteItem_remove",
             "GetItemCopy_find", "GetAllItemsCopy_copy"}

\* C30: under every interleaving of requests on one session, GetItemCopy and
\* GetAllItemsCopy read the list only while no other thread is between the
\* removal and the re-append of a replace or a patch (nor anywhere else in a
\* locked section), so they see the item neither missing nor twice; and a
\* replace, patch or delete changes the list exactly as if it ran alone on
\* the list it found, so concurrent mutations of one id take effect one
\* after the other, in the order in which they took the lock.
C30_AtomicToObservers ==
  /\ [](\A t \in Threads : InItemSection(t) => Self(t)._mutex = t)
  /\ [][\A t \in Threads :
          (Moves(t) /\ InItemSection(t))
          => LET old == Self(t)._items
                 new == heap'[frame[t].session_data]._items
                 before == frame[t].before
                 found == frame[t].session_item
                 rest == IF Truthy(found) THEN Remove(before, found)
                         ELSE before
                 reads == pc[t] \in {"GetItemCopy_find", "GetAllItemsCopy_copy"}
                 ok == frame'[t].response.code = 200
             IN  /\ reads
                    => /\ \A u \in Threads \ {t} : ~InItemSection(u)
                       /\ CountId(old, "A") <= 1
                       /\ new = old
                 /\ pc[t] = "ReplaceItem_append"
                    => new = Append(rest, frame[t].wax)
                 /\ pc[t] = "PatchItem_append"
                    => new = IF ok
                             THEN Append(rest, PatchMerge(found, frame[t].item))
                             ELSE rest
                 /\ pc[t] = "DeleteItem_remove" => new = rest]_vars

\* One thread has removed item A and not yet appended its replacement while
\* the other is about to read item A.
C30_Witness ==
  \E t, u \in Threads :
    /\ pc[t] = "ReplaceItem_append"
    /\ pc[u] = "GetItemCopy"
    /\ frame[u].session_data = frame[t].session_data
    /\ ~HasId(Self(t)._items, "A")

\* C31: no request holds the Repository lock and a SessionData lock at the
\* same time. A handler that takes a SessionData lock has released the
\* Repository lock, and a handler that holds the Repository lock has not yet
\* been handed a SessionData by its request, so it is inside no SessionData
\* operation: the two lock scopes are never nested.
C31_LocksNeverNested ==
  /\ [](\A t \in Threads :
          repo_mutex = t
          => /\ frame[t].session_data = 0
             /\ ~InItemSection(t)
             /\ pc[t] \notin {"AddNewItem_find", "AddNewItem_append"})
  /\ [][\A t \in Threads : \A o \in DOMAIN heap :
          (heap[o]._mutex # t /\ heap'[o]._mutex = t)
          => /\ repo_mutex # t
             /\ repo_mutex' # t
             /\ frame[t].session_data = o]_vars

\* A request that went through GetSessionData is inside ReplaceItem with the
\* session lock, between removal and append, and the Repository lock is free.
C31_Witness ==
  \E t \in Threads :
    /\ pc[t] = "ReplaceItem_append"
    /\ Self(t)._mutex = t
    /\ repo_mutex = "free"

\* Thread t is in the handler proper: it reads and decodes the request body,
\* sleeps for the insert delay, or encodes and writes the response.
InHandler(t) ==
  pc[t] \in {"_ProcessNewSessionCommand", "_ProcessRemoveSessionCommand",
             "_HandleSessionMethod", "_HandleItemMethod",
             "time_sleep", "_SendResponse"}

\* C32: a handler holds neither the Repository lock nor a SessionData lock
\* while it reads or decodes the body, sleeps for the insert delay, or
\* encodes and writes the response. When the delay of a successful POST
\* starts the item is in the list and the session lock is released, so other
\* requests on the session take the lock and see the item during the delay.
C32_NoLockOutsideStore ==
  /\ [](\A t \in Threads :
          InHandler(t)
          => /\ repo_mutex # t
             /\ \A o \in DOMAIN heap : heap[o]._mutex # t)
  /\ [](\A t \in Threads :
          pc[t] = "time_sleep"
          => Contains(Self(t)._items, frame[t].wax))
  /\ [][\A t \in Threads :
          (pc[t] = "AddNewItem_append" /\ pc'[t] = "time_sleep")
          => /\ heap'[frame[t].session_data]._mutex = "free"
             /\ Last(heap'[frame[t].session_data]._items) = frame'[t].wax]_vars

\* While one handler sleeps after creating item C, another handler has taken
\* the lock of the same session and has found the new item.
C32_Witness ==
  \E t, u \in Threads :
    /\ pc[t] = "time_sleep"
    /\ pc[u] = "AddNewItem_append"
    /\ frame[u].session_data = frame[t].session_data
    /\ Self(u)._mutex = u
    /\ frame[u].session_item = frame[t].wax

\* C33: a body that arrives with Content-Length and not chunked is treated as
\* no payload when its bytes are empty or its Content-Type is not exactly
\* application/json: on a route that needs a body the request is answered
\* 400 and nothing changes; otherwise the bytes read are the payload that is
\* parsed. A chunked body is what the chunked decoder returns for the bytes
\* on the wire, whatever the Content-Type, and the decoder's failure is the
\* failure of the request.
C33_PayloadStrategy ==
  [][\A t \in Threads :
       (ReadsJson(t) /\ Moves(t))
       => LET body == frame[t].body
              decoded == _ReadChunkedPayload(body.wire)
              answer == frame'[t].response
              invalid400 == /\ pc'[t] = "_SendResponse"
                            /\ answer = JsonErrorResponse("Invalid JSON", 400)
                            /\ heap' = heap
                            /\ _sessions' = _sessions
                            /\ _sequence_num' = _sequence_num
          IN  CASE body.encoding = "length" ->
                     IF \/ body.t = "absent"
                        \/ body.content_type # _JSON_CONTENT_TYPE
                     THEN invalid400
                     ELSE (body.t = "object" /\ Truthy(body.v)) => ~invalid400
                [] body.encoding = "chunked" ->
                     IF decoded.at = "ValueError"
                     THEN pc'[t] = "idle" /\ resp'[t] = Failure("ValueError")
                     ELSE /\ decoded.payload = PayloadBytes(body)
                          /\ (body.t = "object" /\ Truthy(body.v))
                             => ~invalid400
                [] OTHER -> TRUE]_vars

\* A JSON object sent with Content-Length and Content-Type text/plain has
\* been answered 400.
C33_Witness ==
  \E t \in Threads :
    /\ pc[t] = "_SendResponse"
    /\ frame[t].body.encoding = "length"
    /\ frame[t].body.t = "object"
    /\ frame[t].body.content_type = "text/plain"
    /\ frame[t].response = JsonErrorResponse("Invalid JSON", 400)

\* The request in frame f is a GET on the items of a session or on one item.
IsRead(f) ==
  /\ f.method = "GET"
  /\ f.handler \in {"_HandleSessionMethod", "_HandleItemMethod"}

\* C34: no step of GetSessionData (whatever request calls it), and no step of
\* a GET on /sessions/{s}/items or /sessions/{s}/items/{i}, from its dispatch
\* to its response, whatever its outcome, changes the set of registered
\* sessions, the sequence counter, or the content or order of any session's
\* item list.
C34_ReadsChangeNothing ==
  [][\A t \in Threads :
       ( /\ Moves(t)
         /\ \/ pc[t] \in {"GetSessionData", "GetSessionData_get"}
            \/ IsRead(frame[t])
            \/ IsRead(frame'[t]) )
       => /\ _sessions' = _sessions
          /\ _sequence_num' = _sequence_num
          /\ DOMAIN heap' = DOMAIN heap
          /\ \A o \in DOMAIN heap : heap'[o]._items = heap[o]._items]_vars

\* A read of item A on a registered session that no longer holds it is about
\* to be answered 404, and item B is still in the list.
C34_Witness ==
  \E t \in Threads :
    /\ pc[t] = "_SendResponse"
    /\ IsRead(frame[t])
    /\ frame[t].key = "A"
    /\ frame[t].session_data # 0
    /\ frame[t].response.code = 404
    /\ HasId(Self(t)._items, "B")

\* C35: every Repository and SessionData operation releases its lock when it
\* ends, whatever its outcome, so whenever no handler is inside a request
\* the Repository lock and every SessionData lock are free.
C35_LocksFreeWhenIdle ==
  (\A t \in Threads : pc[t] = "idle")
  => /\ repo_mutex = "free"
     /\ \A o \in DOMAIN heap : heap[o]._mutex = "free"

\* C36: a request that does not end with a success status (an answer 400,
\* 403, 404 or 405, or a failure without an answer) leaves the item list of
\* every session, the registered sessions and the sequence counter exactly as
\* they were when the request was accepted.
C36_FailedRequestChangesNothing ==
  [][\A t \in Threads :
       ( /\ pc[t] # "idle" /\ pc'[t] = "idle"
         /\ \/ resp'[t].code \in {400, 403, 404, 405}
            \/ \E exc \in {"ValueError", "TypeError", "KeyError",
                            "AttributeError"} : resp'[t] = Failure(exc) )
       => StoreContents' = frame[t].entry]_vars

\* The request of t was routed to /sessions/{s}/items or
\* /sessions/{s}/items/{i} and s was not registered when it was accepted.
OnUnknownSession(t) ==
  /\ frame[t].handler \in {"_HandleSessionMethod", "_HandleItemMethod"}
  /\ frame[t].session_id \notin DOMAIN frame[t].entry._sessions

\* C37: a request on /sessions/{s}/items or /sessions/{s}/items/{i} whose s
\* is not registered ends with 404 "Unknown sessionId" whatever its method
\* and its body, with the store as the request found it; the handler decides
\* this in its first step after the lookup, where it has not touched the
\* body, and no step of the request fails on the body.
C37_UnknownSessionFirst ==
  [][\A t \in Threads :
       /\ ( /\ OnUnknownSession(t)
            /\ pc[t] \in {"_HandleSessionMethod", "_HandleItemMethod"}
            /\ Moves(t) )
          => /\ frame[t].session_data = 0
             /\ pc'[t] = "_SendResponse"
             /\ frame'[t].response
                  = JsonErrorResponse("Unknown sessionId", 404)
       /\ ( /\ pc[t] # "idle" /\ OnUnknownSession(t)
            /\ pc'[t] = "idle" )
          => /\ resp'[t] = JsonErrorResponse("Unknown sessionId", 404)
             /\ StoreContents' = frame[t].entry]_vars

\* A POST of a body that is not JSON to the items of a session that is not
\* registered is about to be answered 404.
C37_Witness ==
  \E t \in Threads :
    /\ pc[t] = "_SendResponse"
    /\ OnUnknownSession(t)
    /\ frame[t].method = "POST"
    /\ JsonRaises(frame[t].body)
    /\ frame[t].response = JsonErrorResponse("Unknown sessionId", 404)

\* The SessionData o is the value of some registered session.
Registered(o) == \E s \in DOMAIN _sessions : _sessions[s] = o

\* The thread t looked its session up while it was registered and the
\* session has been removed since.
OnDetached(t) ==
  /\ frame[t].session_data # 0
  /\ frame[t].session_id \notin DOMAIN _sessions

\* The answer of the item operation t is in, by the list of its SessionData.
NormalAnswer(t, r) ==
  LET f == frame[t]
      found == _FindItem(Self(t)._items, f.key)
  IN  CASE pc[t] = "ReplaceItem_append" ->
             r = JsonObjectResponse(f.wax, 200)
        [] pc[t] = "DeleteItem_remove" ->
             IF HasId(Self(t)._items, f.key)
             THEN r = TextResponse("", 204)
             ELSE r = JsonErrorResponse("Unknown item in session", 404)
        [] pc[t] = "GetItemCopy_find" ->
             IF HasId(Self(t)._items, f.key)
             THEN r = JsonObjectResponse(found, 200)
             ELSE r = JsonErrorResponse("Unknown item", 404)
        [] pc[t] = "GetAllItemsCopy_copy" ->
             r = JsonObjectResponse(
                   [kind |-> "wax#waxList", items |-> Self(t)._items], 200)
        [] OTHER -> FALSE

\* C38: under every interleaving of a /removesession of s with requests on
\* /sessions/s/...: a removal that is answered 200 has unregistered s; once
\* s is removed it is never registered again, and a
\* request that looks s up from then on gets 404 without touching any list;
\* a request that looked s up before the removal runs to its end on the
\* SessionData it got, is answered as the list of that SessionData says and
\* changes that list only; and a removed SessionData is never the value of a
\* registered session again: no two registered sessions share a SessionData
\* and a session created later starts on a fresh SessionData with the two
\* initial items.
C38_RemovalDetaches ==
  /\ [](\A s1, s2 \in DOMAIN _sessions :
          _sessions[s1] = _sessions[s2] => s1 = s2)
  /\ [][/\ \A i \in DOMAIN issued :
            issued[i] \notin DOMAIN _sessions
            => issued[i] \notin DOMAIN _sessions'
        /\ \A o \in DOMAIN heap : ~Registered(o) => ~Registered(o)'
        /\ \A s \in DOMAIN _sessions' \ DOMAIN _sessions :
             /\ _sessions'[s] \notin DOMAIN heap
             /\ heap'[_sessions'[s]] = NewSessionData
        /\ \A t \in Threads :
             /\ ( /\ pc[t] = "RemoveIdentifier_pop" /\ Moves(t)
                  /\ frame'[t].response.code = 200 )
                => frame[t].key \notin DOMAIN _sessions'
             /\ ( /\ pc[t] = "GetSessionData_get" /\ Moves(t)
                  /\ frame[t].session_id \notin DOMAIN _sessions )
                => frame'[t].session_data = 0
             /\ ( /\ pc[t] = frame[t].handler /\ Moves(t)
                  /\ frame[t].session_data = 0 )
                => /\ frame'[t].response
                        = JsonErrorResponse("Unknown sessionId", 404)
                   /\ heap' = heap /\ _sessions' = _sessions
             /\ ( /\ OnDetached(t) /\ Moves(t) )
                => /\ pc'[t] # "idle" \/ pc[t] = "_SendResponse"
                   /\ frame'[t].response
                        # JsonErrorResponse("Unknown sessionId", 404)
                   /\ pc'[t] = "_SendResponse" /\ pc[t] # frame[t].handler
                        => NormalAnswer(t, frame'[t].response)
                   /\ \A o \in DOMAIN heap \ {frame[t].session_data} :
                        heap'[o] = heap[o]
                   /\ _sessions' = _sessions]_vars

\* A PUT that looked its session up before the session was removed has
\* replaced item A on the removed SessionData and is about to be answered
\* 200, while a session created after the removal holds the initial items.
C38_Witness ==
  \E t \in Threads :
    /\ pc[t] = "_SendResponse"
    /\ OnDetached(t)
    /\ frame[t].method = "PUT"
    /\ frame[t].response.code = 200
    /\ Last(Self(t)._items) = frame[t].wax
    /\ \E s \in DOMAIN _sessions :
         /\ _sessions[s] > frame[t].session_data
         /\ heap[_sessions[s]] = NewSessionData

\* What the decoder has left to do: the bytes it has not read, counted
\* twice, and the pending read of a chunk's data.
Remaining(d) ==
  2 * (Len(d.rfile) + 1 - d.pos) + (IF d.at = "read_chunk" THEN 1 ELSE 0)

\* C39: on every finite stream, whole, malformed or cut off anywhere, the
\* chunked decoder ends, by returning a payload or by raising ValueError;
\* until then every step either reads at least one byte or is the read of
\* a chunk's data at the end of the stream, after which the next read of a
\* size byte raises: what is left to do shrinks with every step that does not
\* end the decoder.
C39_DecoderTerminates ==
  /\ <>Decoded(dec)
  /\ [](Remaining(dec) >= 0 /\ dec.pos <= Len(dec.rfile) + 1)
  /\ [][/\ ~Decoded(dec)
        /\ \/ Decoded(dec')
           \/ /\ Remaining(dec') < Remaining(dec)
              /\ \/ dec'.pos > dec.pos
                 \/ /\ dec.at = "read_chunk" /\ dec.pos > Len(dec.rfile)
                    /\ ReadStep(dec').at = "ValueError"]_vars

\* A stream that ends inside the data of a chunk: the decoder has taken the
\* bytes that were there as the chunk and has raised on the next size line.
C39_Witness ==
  /\ dec.at = "ValueError"
  /\ dec.pos = Len(dec.rfile) + 1
  /\ dec.payload # << >>
  /\ Len(dec.payload) < 10
  /\ dec.rfile[1] = "a"

====
